---- MODULE Spec2Model ----
(***************************************************************************)
(* Model of omotes_sdk.internal.common.broker_interface.BrokerInterface:   *)
(* a threading.Thread that owns one asyncio event loop, one AMQP           *)
(* connection and channel, an exchange registry and a queue subscription   *)
(* registry.  Caller threads use blocking wrappers that schedule a         *)
(* coroutine on the loop (asyncio.run_coroutine_threadsafe) and wait for   *)
(* its future.                                                             *)
(*                                                                         *)
(* A coroutine runs atomically between two awaits; every await of a broker *)
(* operation is a point where other coroutines of the loop interleave.     *)
(* A broker operation is answered with success or with an error.           *)
(***************************************************************************)
EXTENDS Integers, Sequences, FiniteSets, TLC

\* ---------------------------------------------------------------- bounds
\* Number of consumer tasks that can be alive (or being created) at once.
MaxTasks == 2
\* Number of calls of public methods (start, stop, the four wrappers) made in
\* one behaviour, over all caller threads.
MaxCalls == 3

\* Two caller threads, one queue name, one exchange name, one routing key,
\* two message bodies.
Threads == {"t1", "t2"}
TaskIds == 1..MaxTasks
Queues == {"q1", "q2", "q3"}
\* The queues of the behaviours with two subscriptions.
TwoQueues == {"q1", "q2"}
\* The queue of the behaviours with one queue.
OneQueue == {"q1"}
ExchangeNames == {"e1"}
RoutingKeys == {"r"}
Bodies == {"b1", "b2"}
None == "None"
\* disconnect_after_messages = None, and the limits a subscription is given.
NoLimit == -1
Limits == {NoLimit, 1, 2}

\* TTL durations, in seconds, from -MaxTtl to MaxTtl.
MaxTtl == 2
\* The durations tried: the small ones around zero, and a half minute, one
\* minute and two minutes.  An optional duration is <<>> (not given) or <<d>>.
TtlSeconds == (-MaxTtl .. MaxTtl) \cup {-60, 30, 60, 120}
OptionalTtl == {<<>>} \cup {<<d>> : d \in TtlSeconds}

\* A QueueMessageTTLArguments with no option set, and the result of a
\* to_argument() that has not been called.
NoTtlArguments == [queue_ttl |-> <<>>, message_ttl |-> <<>>]
NotComputed == [status |-> "none", args |-> {}]

\* No OmotesInterface method: the method, the workflow type, whether the
\* progress and the status callback are given, auto_disconnect_on_result, and
\* the message of a job callback.
NoIfOp ==
    [name |-> "none", workflow |-> None, progress |-> FALSE, status |-> FALSE,
     auto |-> FALSE, body |-> None]

VARIABLES
    bgPc,            \* background thread: unstarted, init, running, stopped, closed
    setupPc,         \* _setup_broker_interface: none, connect, channel, set_qos, done, failed
    connection,      \* _connection: none (attribute unset), open, closed
    channel,         \* _channel: none (attribute unset), open, closed
    prefetch,        \* prefetch count set on the channel (0: never set)
    ready,           \* _ready_for_processing
    stopping,        \* _stopping
    stopped,         \* _stopped
    stopCo,          \* _stop_broker_interface coroutine: none, scheduled, close_channel,
                     \*   close_connection, done_ok, done_err
    loopStopRequested,  \* loop.stop has been handed to the loop
    stopSeqStarted,  \* how many times _stop_broker_interface was scheduled
    loopStops,       \* how many times loop.stop was scheduled
    stopLog,         \* what stop() logged with logger.exception: none, error, timeout
    pc,              \* per caller thread: position inside the public method it runs
    op,              \* per caller thread: its current (pc not idle) or last call
    res,             \* per caller thread: outcome of op once it finished: ok or the
                     \*   exception raised to the caller; none while it runs
    co,              \* per caller thread: position of the coroutine it scheduled
    calls,           \* number of public method calls made so far
    exchanges,       \* _exchanges (names)
    consumerByName,  \* _queue_subscription_consumer_by_name: queue -> task id, 0 absent
    tasksByName,     \* _queue_subscription_tasks: queue -> task id, 0 absent
    tasks,           \* consumer tasks: id -> record, see FreeTask
    brokerExchanges, \* exchanges declared on the broker
    brokerQueues,    \* queues declared on the broker
    brokerBindings,  \* <<queue, exchange, routing key>> bound on the broker
    published,       \* the messages published, in order: [exchange, key, body]; a
                     \*   message is named by its index
    queueMsgs,       \* per queue: the messages ready for delivery, in order
    consumers,       \* the consumer tasks registered as consumers on the broker
    acked,           \* messages acknowledged
    callbackLog,     \* the calls of callback_on_message, in order: [task, queue,
                     \*   msg, body]
    detached,        \* messages whose callback still runs in its executor thread
                     \*   after its task was cancelled
    ttlArguments,    \* a QueueMessageTTLArguments: [queue_ttl, message_ttl]
    wireArguments,   \* what to_argument() gave for it: [status, args]
    workflows,       \* OmotesInterface.workflow_type_manager: <<>> (None) or <<the
                     \*   set of workflow type names of the manager>>
    ifPc,            \* per thread: position inside the OmotesInterface method or
                     \*   the job callback it runs
    ifOp,            \* per thread: that method and its arguments
    ifRes,           \* per thread: its outcome: ok or the exception raised
    ifLog            \* the calls of callback_on_finished and of the auto
                     \*   disconnect handler for the last result message, in
                     \*   order

\* The TTL argument set is a value of its own: no operation of the manager
\* reads or writes it.
ttlVars == <<ttlArguments, wireArguments>>
\* The state of the OmotesInterface that owns the manager: no operation of
\* the manager reads or writes it.
ifaceVars == <<workflows, ifPc, ifOp, ifRes, ifLog>>
lifecycleVars == <<bgPc, setupPc, connection, channel, prefetch, ready, ttlVars, ifaceVars>>
stopVars ==
    <<stopping, stopped, stopCo, loopStopRequested, stopSeqStarted, loopStops, stopLog>>
threadVars == <<pc, op, res, co, calls>>
registryVars == <<exchanges, consumerByName, tasksByName, tasks>>
msgVars == <<queueMsgs, consumers, acked, callbackLog, detached>>
brokerVars == <<brokerExchanges, brokerQueues, brokerBindings, published, msgVars>>
vars == <<lifecycleVars, stopVars, threadVars, registryVars, brokerVars>>

NoOp ==
    [name |-> "none", queue |-> None, exchange |-> None, key |-> None,
     body |-> None, limit |-> NoLimit]
\* A consumer task: the queue it consumes; status: free, running, cancelling
\* (Task.cancel() called, CancelledError not yet thrown), done (finished,
\* done-callback queued); limit: disconnect_after_messages; count:
\* number_of_messages_processed; at: the await QueueSubscriptionConsumer.run
\* is at; buf: messages delivered to the queue iterator and not yet taken;
\* cur: the message inside message.process (0: none); cb: the callback in the
\* executor: none, running, returned, raised; qos: the prefetch count the
\* channel had when the consumer was registered (0: unlimited).
FreeTask ==
    [queue |-> None, status |-> "free", limit |-> NoLimit, count |-> 0,
     at |-> "none", qos |-> 0, buf |-> <<>>, cur |-> 0, cb |-> "none"]

CoDone == {"done_ok", "RuntimeError", "AttributeError", "BrokerError"}
\* A coroutine queued on the loop that has not run yet; a task whose
\* cancellation is queued; a finished task whose done-callback is queued.
\* The _late ones were queued after loop.stop was.
Scheduled == {"scheduled", "scheduled_late"}
Cancelling == {"cancelling", "cancelling_late"}
Done == {"done", "done_late"}
StopCoDone == {"done_ok", "done_err"}

\* The loop object exists (self._loop is set) once run() has created it.
HasLoop == bgPc \in {"running", "stopped", "closed"}
\* self.callback_on_message(message.body) called in the coroutine: the loop
\* executes nothing while a callback runs.
LoopRuns_callback_on_loop ==
    bgPc = "running" /\ \A i \in TaskIds : tasks[i].cb # "running"

\* The loop executes callbacks and coroutine steps only inside run_forever;
\* the callbacks of the subscriptions run in executor threads.
LoopRuns == bgPc = "running"
\* The loop handles what arrives from the broker (a reply, a delivery) after
\* the callbacks that are ready: the throw of a requested cancellation into
\* its task and the done-callback of a finished task.
Arrives ==
    /\ bgPc = "running"
    /\ \A i \in TaskIds : tasks[i].status \notin (Cancelling \cup Done)

\* The loop runs its callbacks in the order they were queued, so what was
\* queued before loop.stop has run when run_forever returns.
QueuedBeforeStop ==
    \/ stopCo = "scheduled"
    \/ \E t \in Threads : co[t] = "scheduled"
    \/ \E i \in TaskIds : tasks[i].status \in {"cancelling", "done"}

Init ==
    /\ bgPc = "unstarted"
    /\ setupPc = "none"
    /\ connection = "none"
    /\ channel = "none"
    /\ prefetch = 0
    /\ ready = FALSE
    /\ stopping = FALSE
    /\ stopped = FALSE
    /\ stopCo = "none"
    /\ loopStopRequested = FALSE
    /\ stopSeqStarted = 0
    /\ loopStops = 0
    /\ stopLog = "none"
    /\ pc = [t \in Threads |-> "idle"]
    /\ op = [t \in Threads |-> NoOp]
    /\ res = [t \in Threads |-> "none"]
    /\ co = [t \in Threads |-> "none"]
    /\ calls = 0
    /\ exchanges = {}
    /\ consumerByName = [q \in Queues |-> 0]
    /\ tasksByName = [q \in Queues |-> 0]
    /\ tasks = [i \in TaskIds |-> FreeTask]
    /\ brokerExchanges = {}
    /\ brokerQueues = {}
    /\ brokerBindings = {}
    /\ published = <<>>
    /\ queueMsgs = [q \in Queues |-> <<>>]
    /\ consumers = {}
    /\ acked = {}
    /\ callbackLog = <<>>
    /\ detached = {}
    /\ ttlArguments = NoTtlArguments
    /\ wireArguments = NotComputed
    /\ workflows = <<>>
    /\ ifPc = [t \in Threads |-> "idle"]
    /\ ifOp = [t \in Threads |-> NoIfOp]
    /\ ifRes = [t \in Threads |-> "none"]
    /\ ifLog = <<>>

\* ------------------------------------------------------- start / run / setup

\* start(), super().start(): Thread.start() launches run() in the background
\* thread (a thread is started once).
start_thread(t) ==
    /\ pc[t] = "idle"
    /\ calls < MaxCalls
    /\ calls' = calls + 1
    /\ bgPc = "unstarted"
    /\ bgPc' = "init"
    /\ pc' = [pc EXCEPT ![t] = "start_wait"]
    /\ op' = [op EXCEPT ![t] = [NoOp EXCEPT !.name = "start"]]
    /\ res' = [res EXCEPT ![t] = "none"]
    /\ UNCHANGED <<setupPc, connection, channel, prefetch, ready, ttlVars, ifaceVars, co>>
    /\ UNCHANGED <<stopVars, registryVars, brokerVars>>

\* start(), _ready_for_processing.wait(): no timeout, returns once the event
\* is set.
start_wait(t) ==
    /\ pc[t] = "start_wait"
    /\ ready
    /\ pc' = [pc EXCEPT ![t] = "idle"]
    /\ op' = op
    /\ res' = [res EXCEPT ![t] = "ok"]
    /\ UNCHANGED <<lifecycleVars, co, calls, stopVars, registryVars, brokerVars>>

start(t) ==
    \/ start_thread(t)
    \/ start_wait(t)

\* run(): creates the loop, creates the setup task, enters run_forever; when
\* loop.stop has been processed run_forever returns, and the finally block
\* closes the loop.
run ==
    \/ /\ bgPc = "init"
       /\ bgPc' = "running"
       /\ setupPc' = "connect"
       /\ UNCHANGED <<connection, channel, prefetch, ready, ttlVars, ifaceVars>>
       /\ UNCHANGED <<stopVars, threadVars, registryVars, brokerVars>>
    \/ /\ bgPc = "running"
       /\ loopStopRequested
       /\ ~QueuedBeforeStop
       /\ bgPc' = "stopped"
       /\ UNCHANGED <<setupPc, connection, channel, prefetch, ready, ttlVars, ifaceVars>>
       /\ UNCHANGED <<stopVars, threadVars, registryVars, brokerVars>>
    \/ /\ bgPc = "stopped"
       /\ bgPc' = "closed"
       /\ UNCHANGED <<setupPc, connection, channel, prefetch, ready, ttlVars, ifaceVars>>
       /\ UNCHANGED <<stopVars, threadVars, registryVars, brokerVars>>

\* run() of a manager that is started: what is left of it, run_forever
\* returning and the close of the loop.
run_forever_returns ==
    /\ bgPc \in {"running", "stopped"}
    /\ run

\* _setup_broker_interface with _ready_for_processing.set() moved before
\* set_qos.
_setup_broker_interface_ready_early(ok) ==
    /\ Arrives
    /\ \/ /\ setupPc = "connect"
          /\ IF ok
             THEN connection' = "open" /\ setupPc' = "channel"
             ELSE connection' = connection /\ setupPc' = "failed"
          /\ UNCHANGED <<channel, prefetch, ready>>
       \/ /\ setupPc = "channel"
          /\ ok => connection = "open"
          /\ IF ok
             THEN channel' = "open" /\ ready' = TRUE /\ setupPc' = "set_qos"
             ELSE channel' = channel /\ ready' = ready /\ setupPc' = "failed"
          /\ UNCHANGED <<connection, prefetch>>
       \/ /\ setupPc = "set_qos"
          /\ ok => channel = "open"
          /\ IF ok
             THEN prefetch' = 1 /\ setupPc' = "done"
             ELSE prefetch' = prefetch /\ setupPc' = "failed"
          /\ UNCHANGED <<connection, channel, ready>>
    /\ UNCHANGED <<bgPc, ttlVars, ifaceVars>>
    /\ UNCHANGED <<stopVars, threadVars, registryVars, brokerVars>>

\* _setup_broker_interface: connect_robust, connection.channel(),
\* channel.set_qos(prefetch_count=1), then _ready_for_processing.set().
\* ok is the outcome of the awaited operation; an exception ends the task.
_setup_broker_interface(ok) ==
    /\ Arrives
    /\ \/ /\ setupPc = "connect"
          /\ IF ok
             THEN connection' = "open" /\ setupPc' = "channel"
             ELSE connection' = connection /\ setupPc' = "failed"
          /\ UNCHANGED <<channel, prefetch, ready>>
       \/ /\ setupPc = "channel"
          /\ ok => connection = "open"
          /\ IF ok
             THEN channel' = "open" /\ setupPc' = "set_qos"
             ELSE channel' = channel /\ setupPc' = "failed"
          /\ UNCHANGED <<connection, prefetch, ready>>
       \/ /\ setupPc = "set_qos"
          /\ ok => channel = "open"
          /\ IF ok
             THEN prefetch' = 1 /\ ready' = TRUE /\ setupPc' = "done"
             ELSE prefetch' = prefetch /\ ready' = ready /\ setupPc' = "failed"
          /\ UNCHANGED <<connection, channel>>
    /\ UNCHANGED <<bgPc, ttlVars, ifaceVars>>
    /\ UNCHANGED <<stopVars, threadVars, registryVars, brokerVars>>

RECURSIVE SetToSeq(_)
\* The messages of a set in the order they were published.
SetToSeq(S) ==
    IF S = {} THEN <<>>
    ELSE LET m == CHOOSE x \in S : \A y \in S : x <= y
         IN  <<m>> \o SetToSeq(S \ {m})

SeqToSet(sq) == {sq[n] : n \in 1..Len(sq)}

\* The messages the broker has delivered to consumer i and that are neither
\* acknowledged nor rejected.
Unsettled(i) ==
    IF i \in consumers THEN SeqToSet(tasks[i].buf) \cup ({tasks[i].cur} \ {0}) ELSE {}

\* The broker puts the messages ms of consumer i back at the head of the
\* consumer's queue.
Requeue(i, ms) ==
    IF i \in consumers
    THEN [queueMsgs EXCEPT ![tasks[i].queue] = ms \o @]
    ELSE queueMsgs

\* The done-callback of a task that finishes now is queued on the loop.
Finished == IF loopStopRequested THEN "done_late" ELSE "done"

\* When the channel closes the broker puts every unsettled message back on
\* its queue and the consumers are gone.
ChannelClosed ==
    [q \in Queues |->
        SetToSeq(UNION {Unsettled(i) : i \in {j \in consumers : tasks[j].queue = q}})
            \o queueMsgs[q]]

\* ------------------------------------------------------------------- stop

\* Task.cancel() of every task in ts: a task that is still running gets a
\* cancellation request, a task that is already done is left alone.
CancelAll(ts) ==
    [i \in TaskIds |->
        IF i \in ts /\ tasks[i].status = "running"
        THEN [tasks[i] EXCEPT !.status =
                 IF loopStopRequested THEN "cancelling_late" ELSE "cancelling"]
        ELSE tasks[i]]

\* stop() with the test of _stopping left out: every caller gets will_stop.
stop_critical_section_no_test(t) ==
    /\ pc[t] = "idle"
    /\ calls < MaxCalls
    /\ calls' = calls + 1
    /\ op' = [op EXCEPT ![t] = [NoOp EXCEPT !.name = "stop"]]
    /\ stopping' = TRUE
    /\ pc' = [pc EXCEPT ![t] = "stop_schedule"]
    /\ res' = [res EXCEPT ![t] = "none"]
    /\ UNCHANGED <<stopped, stopCo, loopStopRequested, stopSeqStarted, loopStops, stopLog>>
    /\ UNCHANGED <<lifecycleVars, co, registryVars, brokerVars>>

\* stop(), the block under _stopping_lock: the lock makes the test and the
\* assignment of _stopping one atomic step; will_stop is the position reached.
stop_critical_section(t) ==
    /\ pc[t] = "idle"
    /\ calls < MaxCalls
    /\ calls' = calls + 1
    /\ op' = [op EXCEPT ![t] = [NoOp EXCEPT !.name = "stop"]]
    /\ IF ~stopping
       THEN /\ stopping' = TRUE
            /\ pc' = [pc EXCEPT ![t] = "stop_schedule"]
            /\ res' = [res EXCEPT ![t] = "none"]
       ELSE /\ stopping' = stopping
            /\ pc' = [pc EXCEPT ![t] = "stop_return"]
            /\ res' = [res EXCEPT ![t] = "none"]
    /\ UNCHANGED <<stopped, stopCo, loopStopRequested, stopSeqStarted, loopStops, stopLog>>
    /\ UNCHANGED <<lifecycleVars, co, registryVars, brokerVars>>

\* stop(), a caller with will_stop = False: nothing follows the locked block.
stop_return(t) ==
    /\ pc[t] = "stop_return"
    /\ pc' = [pc EXCEPT ![t] = "idle"]
    /\ op' = op
    /\ res' = [res EXCEPT ![t] = "ok"]
    /\ UNCHANGED <<lifecycleVars, co, calls, stopVars, registryVars, brokerVars>>

\* stop(), will_stop: run_coroutine_threadsafe(_stop_broker_interface(), _loop).
\* Reading self._loop before run() created it raises AttributeError.  Only the
\* caller that set _stopping gets here and only it stops the loop afterwards,
\* so the loop it finds has not been stopped.
stop_schedule(t) ==
    /\ pc[t] = "stop_schedule"
    /\ \/ /\ ~HasLoop
          /\ pc' = [pc EXCEPT ![t] = "idle"]
          /\ op' = op
          /\ res' = [res EXCEPT ![t] = "AttributeError"]
          /\ UNCHANGED stopVars
       \/ /\ HasLoop
          /\ stopCo' = "scheduled"
          /\ stopSeqStarted' = stopSeqStarted + 1
          /\ pc' = [pc EXCEPT ![t] = "stop_wait"]
          /\ UNCHANGED <<op, res>>
          /\ UNCHANGED <<stopping, stopped, loopStopRequested, loopStops, stopLog>>
    /\ UNCHANGED <<lifecycleVars, co, calls, registryVars, brokerVars>>

\* stop() waiting with future.result() without a timeout.
stop_wait_no_timeout(t) ==
    /\ pc[t] = "stop_wait"
    /\ stopCo \in StopCoDone
    /\ stopLog' = IF stopCo = "done_ok" THEN stopLog ELSE "error"
    /\ pc' = [pc EXCEPT ![t] = "stop_loop"]
    /\ UNCHANGED <<op, res, co, calls>>
    /\ UNCHANGED <<stopping, stopped, stopCo, loopStopRequested, stopSeqStarted, loopStops>>
    /\ UNCHANGED <<lifecycleVars, registryVars, brokerVars>>

\* stop() without the try/except around future.result(timeout=...): the
\* exception of the coroutine and the TimeoutError reach the caller.
stop_wait_propagates(t) ==
    /\ pc[t] = "stop_wait"
    /\ IF stopCo = "done_ok"
       THEN /\ pc' = [pc EXCEPT ![t] = "stop_loop"]
            /\ res' = res
       ELSE /\ pc' = [pc EXCEPT ![t] = "idle"]
            /\ res' = [res EXCEPT ![t] =
                    IF stopCo = "done_err" THEN "BrokerError" ELSE "TimeoutError"]
    /\ UNCHANGED <<op, co, calls>>
    /\ UNCHANGED stopVars
    /\ UNCHANGED <<lifecycleVars, registryVars, brokerVars>>

\* stop(), future.result(timeout=TIMEOUT_ON_STOP_SECONDS) inside try/except
\* Exception: the coroutine finished, raised, or the timeout elapsed first; the
\* exception and the timeout are logged (stopLog) and swallowed.
stop_wait(t) ==
    /\ pc[t] = "stop_wait"
    /\ stopLog' = IF stopCo = "done_ok" THEN stopLog
                  ELSE IF stopCo = "done_err" THEN "error"
                  ELSE "timeout"
    /\ pc' = [pc EXCEPT ![t] = "stop_loop"]
    /\ UNCHANGED <<op, res, co, calls>>
    /\ UNCHANGED <<stopping, stopped, stopCo, loopStopRequested, stopSeqStarted, loopStops>>
    /\ UNCHANGED <<lifecycleVars, registryVars, brokerVars>>

\* stop(), _loop.call_soon_threadsafe(_loop.stop) and _stopped = True.
stop_loop(t) ==
    /\ pc[t] = "stop_loop"
    /\ loopStopRequested' = TRUE
    /\ loopStops' = loopStops + 1
    /\ stopped' = TRUE
    /\ pc' = [pc EXCEPT ![t] = "idle"]
    /\ op' = op
    /\ res' = [res EXCEPT ![t] = "ok"]
    /\ UNCHANGED <<stopping, stopCo, stopSeqStarted, stopLog>>
    /\ UNCHANGED <<lifecycleVars, co, calls, registryVars, brokerVars>>

stop(t) ==
    \/ stop_critical_section(t)
    \/ stop_return(t)
    \/ stop_schedule(t)
    \/ stop_wait(t)
    \/ stop_loop(t)

\* _stop_broker_interface: cancel the tasks of the task registry, close the
\* channel if the attribute exists, close the connection if it exists.
\* ok is the outcome of the awaited close.
_stop_broker_interface(ok) ==
    /\ LoopRuns
    /\ \/ /\ stopCo = "scheduled"
          /\ ok
          /\ tasks' = CancelAll({tasksByName[q] : q \in Queues})
          /\ stopCo' = IF channel # "none" THEN "close_channel"
                       ELSE IF connection # "none" THEN "close_connection"
                       ELSE "done_ok"
          /\ UNCHANGED <<connection, channel, queueMsgs, consumers>>
       \/ /\ stopCo = "close_channel"
          /\ Arrives
          /\ IF ok
             THEN /\ channel' = "closed"
                  /\ queueMsgs' = ChannelClosed
                  /\ consumers' = {}
                  /\ stopCo' = IF connection # "none" THEN "close_connection"
                               ELSE "done_ok"
             ELSE /\ UNCHANGED <<channel, queueMsgs, consumers>>
                  /\ stopCo' = "done_err"
          /\ UNCHANGED <<connection, tasks>>
       \/ /\ stopCo = "close_connection"
          /\ Arrives
          /\ IF ok
             THEN /\ connection' = "closed"
                  /\ channel' = IF channel = "open" THEN "closed" ELSE channel
                  /\ queueMsgs' = ChannelClosed
                  /\ consumers' = {}
                  /\ stopCo' = "done_ok"
             ELSE /\ UNCHANGED <<connection, channel, queueMsgs, consumers>>
                  /\ stopCo' = "done_err"
          /\ UNCHANGED tasks
    /\ UNCHANGED <<bgPc, setupPc, prefetch, ready, ttlVars, ifaceVars>>
    /\ UNCHANGED <<stopping, stopped, loopStopRequested, stopSeqStarted, loopStops, stopLog>>
    /\ UNCHANGED <<threadVars, exchanges, consumerByName, tasksByName>>
    /\ UNCHANGED <<brokerExchanges, brokerQueues, brokerBindings, published>>
    /\ UNCHANGED <<acked, callbackLog, detached>>

\* ------------------------------------------------- the synchronous wrappers

\* Consumer tasks alive, and add_queue_subscription coroutines that may still
\* create one.
LiveTasks == {i \in TaskIds : tasks[i].status # "free"}
PendingAdds ==
    {t \in Threads : /\ op[t].name = "add_queue_subscription"
                     /\ pc[t] = "wait"
                     /\ co[t] \notin CoDone}

\* asyncio.run_coroutine_threadsafe(coroutine, self._loop): reading self._loop
\* before run() created it raises AttributeError, a closed loop refuses the
\* callback with RuntimeError, otherwise the coroutine is queued on the loop
\* (a stopped loop queues it too and never runs it) and the caller goes on to
\* wait for the future.
run_coroutine_threadsafe(t, o) ==
    /\ pc[t] = "idle"
    /\ calls < MaxCalls
    /\ calls' = calls + 1
    /\ op' = [op EXCEPT ![t] = o]
    /\ \/ /\ ~HasLoop
          /\ res' = [res EXCEPT ![t] = "AttributeError"]
          /\ UNCHANGED <<pc, co>>
       \/ /\ bgPc = "closed"
          /\ res' = [res EXCEPT ![t] = "RuntimeError"]
          /\ UNCHANGED <<pc, co>>
       \/ /\ bgPc \in {"running", "stopped"}
          /\ pc' = [pc EXCEPT ![t] = "wait"]
          /\ co' = [co EXCEPT ![t] =
                 IF loopStopRequested THEN "scheduled_late" ELSE "scheduled"]
          /\ res' = [res EXCEPT ![t] = "none"]
    /\ UNCHANGED <<lifecycleVars, stopVars, registryVars, brokerVars>>

\* A wrapper that waits for the coroutine and drops its exception.
future_result_swallows(t) ==
    /\ pc[t] = "wait"
    /\ co[t] \in CoDone
    /\ pc' = [pc EXCEPT ![t] = "idle"]
    /\ op' = op
    /\ res' = [res EXCEPT ![t] = "ok"]
    /\ co' = [co EXCEPT ![t] = "none"]
    /\ UNCHANGED <<calls, lifecycleVars, stopVars, registryVars, brokerVars>>

\* Future.result() without a timeout: returns when the coroutine has
\* finished and re-raises its exception.
future_result(t) ==
    /\ pc[t] = "wait"
    /\ co[t] \in CoDone
    /\ pc' = [pc EXCEPT ![t] = "idle"]
    /\ op' = op
    /\ res' = [res EXCEPT ![t] = IF co[t] = "done_ok" THEN "ok" ELSE co[t]]
    /\ co' = [co EXCEPT ![t] = "none"]
    /\ UNCHANGED <<calls, lifecycleVars, stopVars, registryVars, brokerVars>>

declare_exchange(t, e) ==
    run_coroutine_threadsafe(t, [NoOp EXCEPT !.name = "declare_exchange", !.exchange = e])

add_queue_subscription(t, q, e, k, n) ==
    /\ Cardinality(LiveTasks) + Cardinality(PendingAdds) < MaxTasks
    /\ run_coroutine_threadsafe(t,
           [NoOp EXCEPT !.name = "add_queue_subscription", !.queue = q,
                        !.exchange = e, !.key = k, !.limit = n])

remove_queue_subscription(t, q) ==
    run_coroutine_threadsafe(t,
        [NoOp EXCEPT !.name = "remove_queue_subscription", !.queue = q])

send_message_to(t, e, k, b) ==
    run_coroutine_threadsafe(t,
        [NoOp EXCEPT !.name = "send_message_to", !.exchange = e, !.key = k, !.body = b])

\* ------------------------------------------------ the coroutines on the loop

Running(t, name) == LoopRuns /\ pc[t] = "wait" /\ op[t].name = name

\* A _declare_exchange that records the name before it awaits the broker.
_declare_exchange_records_first(t, ok) ==
    /\ Running(t, "declare_exchange")
    /\ \/ /\ co[t] \in Scheduled
          /\ ok
          /\ co' = [co EXCEPT ![t] =
                 IF channel = "none" THEN "AttributeError" ELSE "declare_exchange"]
          /\ exchanges' = IF channel = "none" THEN exchanges
                          ELSE exchanges \cup {op[t].exchange}
          /\ UNCHANGED brokerExchanges
       \/ /\ co[t] = "declare_exchange"
          /\ Arrives
          /\ ok => channel = "open"
          /\ IF ok
             THEN /\ brokerExchanges' = brokerExchanges \cup {op[t].exchange}
                  /\ co' = [co EXCEPT ![t] = "done_ok"]
             ELSE /\ UNCHANGED brokerExchanges
                  /\ co' = [co EXCEPT ![t] = "BrokerError"]
          /\ UNCHANGED exchanges
    /\ UNCHANGED <<pc, op, res, calls, consumerByName, tasksByName, tasks>>
    /\ UNCHANGED <<brokerQueues, brokerBindings, published, msgVars>>
    /\ UNCHANGED <<lifecycleVars, stopVars>>

\* _declare_exchange: await channel.declare_exchange, then record the exchange.
_declare_exchange(t, ok) ==
    /\ Running(t, "declare_exchange")
    /\ \/ /\ co[t] \in Scheduled
          /\ ok
          /\ co' = [co EXCEPT ![t] =
                 IF channel = "none" THEN "AttributeError" ELSE "declare_exchange"]
          /\ UNCHANGED <<exchanges, brokerExchanges>>
       \/ /\ co[t] = "declare_exchange"
          /\ Arrives
          /\ ok => channel = "open"
          /\ IF ok
             THEN /\ brokerExchanges' = brokerExchanges \cup {op[t].exchange}
                  /\ exchanges' = exchanges \cup {op[t].exchange}
                  /\ co' = [co EXCEPT ![t] = "done_ok"]
             ELSE /\ UNCHANGED <<exchanges, brokerExchanges>>
                  /\ co' = [co EXCEPT ![t] = "BrokerError"]
    /\ UNCHANGED <<pc, op, res, calls, consumerByName, tasksByName, tasks>>
    /\ UNCHANGED <<brokerQueues, brokerBindings, published, msgVars>>
    /\ UNCHANGED <<lifecycleVars, stopVars>>

\* The queues the broker routes a message to: the default exchange routes to
\* the queue named by the routing key, a declared exchange to the queues bound
\* to it with that key; a message no queue matches is dropped.
Route(e, k) ==
    IF e = None THEN {q \in brokerQueues : q = k}
    ELSE {q \in brokerQueues : <<q, e, k>> \in brokerBindings}

\* Message(body=b"") in place of Message(body=message).
amqp_message_empty_body(t) ==
    [exchange |-> op[t].exchange, key |-> op[t].key, body |-> None,
     delivery_mode |-> "PERSISTENT"]

\* Message(body=message): the delivery mode left at the library's default.
amqp_message_default_delivery_mode(t) ==
    [exchange |-> op[t].exchange, key |-> op[t].key, body |-> op[t].body,
     delivery_mode |-> "NOT_PERSISTENT"]

\* Message(body=message, delivery_mode=DeliveryMode.PERSISTENT) as it is
\* published: on the exchange and with the routing key of the call.
amqp_message(t) ==
    [exchange |-> op[t].exchange, key |-> op[t].key, body |-> op[t].body,
     delivery_mode |-> "PERSISTENT"]

\* _send_message_to publishing on the default exchange when the exchange is
\* not in _exchanges.
send_branch_default_fallback(t) ==
    IF channel = "none" THEN "AttributeError" ELSE "publish"

\* _send_message_to up to its await: the default exchange when exchange_name
\* is None (AttributeError when self._channel is not set yet), RuntimeError
\* when the exchange is not in _exchanges, else the declared exchange.
send_branch(t) ==
    IF op[t].exchange = None
    THEN (IF channel = "none" THEN "AttributeError" ELSE "publish")
    ELSE IF op[t].exchange \notin exchanges THEN "RuntimeError"
    ELSE "publish"

\* _send_message_to: build the message, choose the exchange, await publish.
\* The broker appends a published message to every queue it routes to.
_send_message_to(t, ok) ==
    /\ Running(t, "send_message_to")
    /\ \/ /\ co[t] \in Scheduled
          /\ ok
          /\ co' = [co EXCEPT ![t] = send_branch(t)]
          /\ UNCHANGED <<published, queueMsgs>>
       \/ /\ co[t] = "publish"
          /\ Arrives
          /\ ok => channel = "open"
          /\ IF ok
             THEN /\ published' = Append(published, amqp_message(t))
                  /\ queueMsgs' =
                       [q \in Queues |->
                           IF q \in Route(amqp_message(t).exchange, amqp_message(t).key)
                           THEN Append(queueMsgs[q], Len(published) + 1)
                           ELSE queueMsgs[q]]
                  /\ co' = [co EXCEPT ![t] = "done_ok"]
             ELSE /\ UNCHANGED <<published, queueMsgs>>
                  /\ co' = [co EXCEPT ![t] = "BrokerError"]
    /\ UNCHANGED <<pc, op, res, calls, registryVars>>
    /\ UNCHANGED <<brokerExchanges, brokerQueues, brokerBindings>>
    /\ UNCHANGED <<consumers, acked, callbackLog, detached>>
    /\ UNCHANGED <<lifecycleVars, stopVars>>

\* The tail of _add_queue_subscription: build the consumer, record it, create
\* its task with the done-callback, record the task.  No await in between.
RegisterSubscription(t) ==
    LET q == op[t].queue
        i == CHOOSE j \in TaskIds :
                 /\ tasks[j].status = "free"
                 /\ \A k \in TaskIds : tasks[k].status = "free" => j <= k
    IN  /\ consumerByName' = [consumerByName EXCEPT ![q] = i]
        /\ tasksByName' = [tasksByName EXCEPT ![q] = i]
        /\ tasks' = [tasks EXCEPT ![i] =
                        [FreeTask EXCEPT !.queue = q, !.status = "running",
                                         !.limit = op[t].limit, !.at = "consume"]]
        /\ co' = [co EXCEPT ![t] = "done_ok"]

\* _add_queue_subscription without the test for a routing key that comes
\* without an exchange name.
add_checks_no_key_test(t) ==
    IF consumerByName[op[t].queue] # 0 THEN "RuntimeError"
    ELSE IF channel = "none" THEN "AttributeError"
    ELSE "declare_queue"

\* _add_queue_subscription without the test for an existing subscription.
add_checks_no_duplicate_test(t) ==
    IF op[t].key # None /\ op[t].exchange = None THEN "RuntimeError"
    ELSE IF channel = "none" THEN "AttributeError"
    ELSE "declare_queue"

\* _add_queue_subscription up to its first await: RuntimeError when the queue
\* name has a consumer in the registry, RuntimeError when a routing key comes
\* without an exchange name, AttributeError when self._channel is not set yet,
\* otherwise channel.declare_queue is awaited.
add_checks(t) ==
    IF consumerByName[op[t].queue] # 0 THEN "RuntimeError"
    ELSE IF op[t].key # None /\ op[t].exchange = None THEN "RuntimeError"
    ELSE IF channel = "none" THEN "AttributeError"
    ELSE "declare_queue"

\* A bind with the routing key as given, None included.
bind_routing_key_as_given(t) == op[t].key

\* queue.bind(exchange=exchange, routing_key=queue_name) whatever
\* bind_to_routing_key is.
bind_routing_key_queue_name(t) == op[t].queue

\* queue.bind(exchange=exchange, routing_key=bind_to_routing_key): the queue
\* is bound with the given key, and with its own name when the key is None.
bind_routing_key(t) == IF op[t].key = None THEN op[t].queue ELSE op[t].key

\* An _add_queue_subscription that records the consumer before it awaits
\* queue.bind.
_add_queue_subscription_registers_before_bind(t, ok) ==
    /\ Running(t, "add_queue_subscription")
    /\ \/ /\ co[t] \in Scheduled
          /\ ok
          /\ co' = [co EXCEPT ![t] = add_checks(t)]
          /\ UNCHANGED <<consumerByName, tasksByName, tasks, brokerQueues, brokerBindings>>
       \/ /\ co[t] = "declare_queue"
          /\ Arrives
          /\ ok => channel = "open"
          /\ IF ~ok
             THEN /\ co' = [co EXCEPT ![t] = "BrokerError"]
                  /\ UNCHANGED <<consumerByName, tasksByName, tasks, brokerQueues>>
             ELSE /\ brokerQueues' = brokerQueues \cup {op[t].queue}
                  /\ IF op[t].exchange = None
                     THEN RegisterSubscription(t)
                     ELSE /\ co' = [co EXCEPT ![t] =
                                IF op[t].exchange \notin exchanges
                                THEN "RuntimeError" ELSE "bind"]
                          /\ consumerByName' =
                                [consumerByName EXCEPT ![op[t].queue] =
                                    CHOOSE j \in TaskIds : tasks[j].status = "free"]
                          /\ UNCHANGED <<tasksByName, tasks>>
          /\ UNCHANGED brokerBindings
       \/ /\ co[t] = "bind"
          /\ Arrives
          /\ ok => channel = "open"
          /\ IF ~ok
             THEN /\ co' = [co EXCEPT ![t] = "BrokerError"]
                  /\ UNCHANGED <<consumerByName, tasksByName, tasks, brokerBindings>>
             ELSE /\ brokerBindings' = brokerBindings \cup
                        {<<op[t].queue, op[t].exchange, bind_routing_key(t)>>}
                  /\ RegisterSubscription(t)
          /\ UNCHANGED brokerQueues
    /\ UNCHANGED <<pc, op, res, calls, exchanges, brokerExchanges, published, msgVars>>
    /\ UNCHANGED <<lifecycleVars, stopVars>>

\* _add_queue_subscription: the two configuration checks, await
\* channel.declare_queue, the exchange lookup and await queue.bind when an
\* exchange name is given (a routing key of None binds to the queue name),
\* then the registration.
_add_queue_subscription(t, ok) ==
    /\ Running(t, "add_queue_subscription")
    /\ \/ /\ co[t] \in Scheduled
          /\ ok
          /\ co' = [co EXCEPT ![t] = add_checks(t)]
          /\ UNCHANGED <<consumerByName, tasksByName, tasks, brokerQueues, brokerBindings>>
       \/ /\ co[t] = "declare_queue"
          /\ Arrives
          /\ ok => channel = "open"
          /\ IF ~ok
             THEN /\ co' = [co EXCEPT ![t] = "BrokerError"]
                  /\ UNCHANGED <<consumerByName, tasksByName, tasks, brokerQueues>>
             ELSE /\ brokerQueues' = brokerQueues \cup {op[t].queue}
                  /\ IF op[t].exchange = None
                     THEN RegisterSubscription(t)
                     ELSE /\ co' = [co EXCEPT ![t] =
                                IF op[t].exchange \notin exchanges
                                THEN "RuntimeError" ELSE "bind"]
                          /\ UNCHANGED <<consumerByName, tasksByName, tasks>>
          /\ UNCHANGED brokerBindings
       \/ /\ co[t] = "bind"
          /\ Arrives
          /\ ok => channel = "open"
          /\ IF ~ok
             THEN /\ co' = [co EXCEPT ![t] = "BrokerError"]
                  /\ UNCHANGED <<consumerByName, tasksByName, tasks, brokerBindings>>
             ELSE /\ brokerBindings' = brokerBindings \cup
                        {<<op[t].queue, op[t].exchange, bind_routing_key(t)>>}
                  /\ RegisterSubscription(t)
          /\ UNCHANGED brokerQueues
    /\ UNCHANGED <<pc, op, res, calls, exchanges, brokerExchanges, published, msgVars>>
    /\ UNCHANGED <<lifecycleVars, stopVars>>

\* A _remove_queue_subscription that cancels the task and leaves the queue
\* on the broker.
_remove_queue_subscription_cancel_only(t, ok) ==
    /\ Running(t, "remove_queue_subscription")
    /\ co[t] \in Scheduled
    /\ ok
    /\ tasks' = IF tasksByName[op[t].queue] # 0
                THEN CancelAll({tasksByName[op[t].queue]}) ELSE tasks
    /\ co' = [co EXCEPT ![t] = "done_ok"]
    /\ UNCHANGED <<pc, op, res, calls, exchanges, consumerByName, tasksByName>>
    /\ UNCHANGED <<lifecycleVars, stopVars, brokerVars>>

\* _remove_queue_subscription: when the queue has a task, cancel it and await
\* channel.queue_delete; otherwise nothing.  Deleting a queue on the broker
\* drops its messages, its bindings and its consumers.
_remove_queue_subscription(t, ok) ==
    /\ Running(t, "remove_queue_subscription")
    /\ \/ /\ co[t] \in Scheduled
          /\ ok
          /\ IF tasksByName[op[t].queue] # 0
             THEN /\ tasks' = CancelAll({tasksByName[op[t].queue]})
                  /\ co' = [co EXCEPT ![t] = "queue_delete"]
             ELSE /\ tasks' = tasks
                  /\ co' = [co EXCEPT ![t] = "done_ok"]
          /\ UNCHANGED <<brokerQueues, brokerBindings, queueMsgs, consumers>>
       \/ /\ co[t] = "queue_delete"
          /\ Arrives
          /\ ok => channel = "open"
          /\ IF ok
             THEN /\ brokerQueues' = brokerQueues \ {op[t].queue}
                  /\ brokerBindings' = {b \in brokerBindings : b[1] # op[t].queue}
                  /\ queueMsgs' = [queueMsgs EXCEPT ![op[t].queue] = <<>>]
                  /\ consumers' = {i \in consumers : tasks[i].queue # op[t].queue}
                  /\ co' = [co EXCEPT ![t] = "done_ok"]
             ELSE /\ UNCHANGED <<brokerQueues, brokerBindings, queueMsgs, consumers>>
                  /\ co' = [co EXCEPT ![t] = "BrokerError"]
          /\ UNCHANGED tasks
    /\ UNCHANGED <<pc, op, res, calls, exchanges, consumerByName, tasksByName>>
    /\ UNCHANGED <<brokerExchanges, published, acked, callbackLog, detached>>
    /\ UNCHANGED <<lifecycleVars, stopVars>>

\* ------------------------------------------------------- the consumer tasks

\* The broker delivers the next message of a queue to one of its consumers,
\* up to the consumer's prefetch count of unsettled messages.
deliver(i) ==
    /\ Arrives
    /\ channel = "open"
    /\ i \in consumers
    /\ queueMsgs[tasks[i].queue] # <<>>
    /\ tasks[i].qos = 0 \/ Cardinality(Unsettled(i)) < tasks[i].qos
    /\ tasks' = [tasks EXCEPT ![i].buf = Append(@, Head(queueMsgs[tasks[i].queue]))]
    /\ queueMsgs' = [queueMsgs EXCEPT ![tasks[i].queue] = Tail(@)]
    /\ UNCHANGED <<exchanges, consumerByName, tasksByName>>
    /\ UNCHANGED <<brokerExchanges, brokerQueues, brokerBindings, published>>
    /\ UNCHANGED <<consumers, acked, callbackLog, detached>>
    /\ UNCHANGED <<lifecycleVars, stopVars, threadVars>>

\* callback_on_message(message.body) in a thread of the executor returns
\* (ok) or raises.
callback_on_message(i, ok) ==
    /\ tasks[i].cb = "running"
    /\ tasks' = [tasks EXCEPT ![i].cb = IF ok THEN "returned" ELSE "raised"]
    /\ UNCHANGED <<exchanges, consumerByName, tasksByName>>
    /\ UNCHANGED <<lifecycleVars, stopVars, threadVars, brokerVars>>

\* A callback of which the task no longer awaits the result returns or
\* raises in its executor thread; the outcome is dropped.
detached_callback_ends(m) ==
    /\ m \in detached
    /\ detached' = detached \ {m}
    /\ UNCHANGED <<queueMsgs, consumers, acked, callbackLog>>
    /\ UNCHANGED <<brokerExchanges, brokerQueues, brokerBindings, published>>
    /\ UNCHANGED <<lifecycleVars, stopVars, threadVars, registryVars>>

\* A cancellation that ends the callback with its task.
executor_job_after_cancel_interrupted(i) == detached

\* The job handed to run_in_executor when the task awaiting it is cancelled:
\* a job that is executing cannot be cancelled and goes on in its thread.
executor_job_after_cancel(i) ==
    IF tasks[i].at = "callback" /\ tasks[i].cb = "running"
    THEN detached \cup {tasks[i].cur}
    ELSE detached

\* QueueSubscriptionConsumer.run of task i receives the CancelledError of a
\* requested cancellation at the await it is at: a task that has not run
\* yet, or that awaits basic.consume, is done; inside message.process(requeue=True)
\* the message is rejected with requeue (the callback goes on in its thread,
\* nobody awaits it); leaving the queue iterator awaits its close(); a task
\* already inside close() is done, its basic.cancel is on its way and the
\* messages left in the iterator stay unsettled until the channel closes.
consumer_cancelled(i) ==
    /\ LoopRuns
    /\ tasks[i].status \in Cancelling
    /\ \/ /\ tasks[i].at \in {"consume", "close"}
          /\ tasks' = [tasks EXCEPT ![i].status = Finished, ![i].buf = <<>>]
          /\ consumers' = consumers \ {i}
          /\ UNCHANGED queueMsgs
       \/ /\ tasks[i].at = "iterate"
          /\ tasks' = [tasks EXCEPT ![i].status = "running", ![i].at = "close"]
          /\ UNCHANGED <<queueMsgs, consumers>>
       \/ /\ tasks[i].at = "callback"
          /\ tasks' = [tasks EXCEPT ![i].status = "running", ![i].at = "close",
                                    ![i].cur = 0, ![i].cb = "none"]
          /\ queueMsgs' = Requeue(i, <<tasks[i].cur>>)
          /\ UNCHANGED consumers
    /\ detached' = executor_job_after_cancel(i)
    /\ UNCHANGED <<exchanges, consumerByName, tasksByName>>
    /\ UNCHANGED <<brokerExchanges, brokerQueues, brokerBindings, published>>
    /\ UNCHANGED <<acked, callbackLog>>
    /\ UNCHANGED <<lifecycleVars, stopVars, threadVars>>

\* number_of_messages_processed >= disconnect_after_messages read as >.
limit_reached_off_by_one(i) ==
    tasks[i].limit # NoLimit /\ tasks[i].count + 1 > tasks[i].limit

\* The test after number_of_messages_processed += 1: a limit is set and is
\* reached.
limit_reached(i) ==
    tasks[i].limit # NoLimit /\ tasks[i].count + 1 >= tasks[i].limit

\* message.process(requeue=False): a message whose callback raised is
\* rejected and dropped.
process_exit_raised_no_requeue(i) == queueMsgs

\* message.process(requeue=True) left with an exception: the message is
\* rejected with requeue.
process_exit_raised(i) == Requeue(i, <<tasks[i].cur>>)

\* A consumer that acknowledges a message when it takes it from the iterator.
take_message_acks_first(i) ==
    /\ tasks' = [tasks EXCEPT ![i].at = "callback", ![i].cb = "running",
                              ![i].cur = Head(tasks[i].buf), ![i].buf = Tail(@)]
    /\ acked' = IF i \in consumers THEN acked \cup {Head(tasks[i].buf)} ELSE acked
    /\ callbackLog' = Append(callbackLog,
           [task |-> i, queue |-> tasks[i].queue, msg |-> Head(tasks[i].buf),
            body |-> published[Head(tasks[i].buf)].body])
    /\ detached' = detached

\* async for message in queue_iter, async with message.process(requeue=True),
\* run_in_executor(None, partial(callback_on_message, message.body)): the next
\* message of the iterator is handed to the callback in an executor thread
\* and the task awaits it.
take_message(i) ==
    /\ tasks' = [tasks EXCEPT ![i].at = "callback", ![i].cb = "running",
                              ![i].cur = Head(tasks[i].buf), ![i].buf = Tail(@)]
    /\ acked' = acked
    /\ callbackLog' = Append(callbackLog,
           [task |-> i, queue |-> tasks[i].queue, msg |-> Head(tasks[i].buf),
            body |-> published[Head(tasks[i].buf)].body])
    /\ detached' = detached

\* QueueSubscriptionConsumer.run of task i, the steps it takes by itself:
\* taking a message, and after the callback: on return the count goes up, the message is
\* acknowledged when message.process is left, and the loop goes on or breaks
\* at the limit (leaving the iterator awaits its close()); on an exception
\* the message is rejected with requeue and the exception leaves the iterator.
\* An acknowledgement on a closed channel raises.
consumer_step(i) ==
    /\ LoopRuns
    /\ tasks[i].status = "running"
    /\ \/ /\ tasks[i].at = "iterate"
          /\ tasks[i].buf # <<>>
          /\ take_message(i)
          /\ UNCHANGED queueMsgs
       \/ /\ tasks[i].at = "callback"
          /\ tasks[i].cb = "returned"
          /\ tasks' = [tasks EXCEPT
                 ![i].count = @ + 1, ![i].cur = 0, ![i].cb = "none",
                 ![i].at = IF channel = "open" /\ ~limit_reached(i)
                           THEN "iterate" ELSE "close"]
          /\ acked' = IF channel = "open" /\ i \in consumers
                       THEN acked \cup {tasks[i].cur} ELSE acked
          /\ UNCHANGED <<queueMsgs, callbackLog, detached>>
       \/ /\ tasks[i].at = "callback"
          /\ tasks[i].cb = "raised"
          /\ tasks' = [tasks EXCEPT ![i].cur = 0, ![i].cb = "none", ![i].at = "close"]
          /\ queueMsgs' = process_exit_raised(i)
          /\ UNCHANGED <<acked, callbackLog, detached>>
    /\ UNCHANGED <<exchanges, consumerByName, tasksByName>>
    /\ UNCHANGED <<brokerExchanges, brokerQueues, brokerBindings, published, consumers>>
    /\ UNCHANGED <<lifecycleVars, stopVars, threadVars>>

\* QueueSubscriptionConsumer.run of task i, the broker operations it awaits:
\* the basic.consume sent on entering queue.iterator() registers the
\* consumer, or fails and ends the task; the
\* basic.cancel of the iterator's close() unregisters it, the messages still
\* in the iterator go back to the queue, and the task is done.
consumer_reply(i, ok) ==
    /\ Arrives
    /\ tasks[i].status = "running"
    /\ \/ /\ tasks[i].at = "consume"
          /\ ok => (channel = "open" /\ tasks[i].queue \in brokerQueues)
          /\ IF ok
             THEN /\ tasks' = [tasks EXCEPT ![i].at = "iterate", ![i].qos = prefetch]
                  /\ consumers' = consumers \cup {i}
             ELSE /\ tasks' = [tasks EXCEPT ![i].status = Finished]
                  /\ consumers' = consumers
          /\ UNCHANGED queueMsgs
       \/ /\ tasks[i].at = "close"
          /\ ok
          /\ tasks' = [tasks EXCEPT ![i].status = Finished, ![i].buf = <<>>]
          /\ queueMsgs' = Requeue(i, tasks[i].buf)
          /\ consumers' = consumers \ {i}
    /\ UNCHANGED <<exchanges, consumerByName, tasksByName>>
    /\ UNCHANGED <<brokerExchanges, brokerQueues, brokerBindings, published>>
    /\ UNCHANGED <<acked, callbackLog, detached>>
    /\ UNCHANGED <<lifecycleVars, stopVars, threadVars>>

\* A done-callback that deletes the task and leaves the consumer registered.
_remove_queue_subscription_task_keeps_consumer(i) ==
    /\ LoopRuns
    /\ tasks[i].status \in Done
    /\ tasksByName' = [tasksByName EXCEPT ![tasks[i].queue] = 0]
    /\ tasks' = [tasks EXCEPT ![i] = FreeTask]
    /\ UNCHANGED <<exchanges, consumerByName>>
    /\ UNCHANGED <<lifecycleVars, stopVars, threadVars, brokerVars>>

\* _remove_queue_subscription_task, the done-callback of task i, bound to the
\* queue name: deletes whatever the two registries hold under that name.
_remove_queue_subscription_task(i) ==
    /\ LoopRuns
    /\ tasks[i].status \in Done
    /\ IF tasksByName[tasks[i].queue] # 0
       THEN /\ consumerByName' = [consumerByName EXCEPT ![tasks[i].queue] = 0]
            /\ tasksByName' = [tasksByName EXCEPT ![tasks[i].queue] = 0]
       ELSE UNCHANGED <<consumerByName, tasksByName>>
    /\ tasks' = [tasks EXCEPT ![i] = FreeTask]
    /\ UNCHANGED exchanges
    /\ UNCHANGED <<lifecycleVars, stopVars, threadVars, brokerVars>>

\* What the loop, the broker and the caller threads do once calls are made.
Work ==
    \/ \E t \in Threads : future_result(t)
    \/ \E t \in Threads, ok \in BOOLEAN : _declare_exchange(t, ok)
    \/ \E t \in Threads, ok \in BOOLEAN : _send_message_to(t, ok)
    \/ \E t \in Threads, ok \in BOOLEAN : _add_queue_subscription(t, ok)
    \/ \E t \in Threads, ok \in BOOLEAN : _remove_queue_subscription(t, ok)
    \/ \E i \in TaskIds : consumer_cancelled(i)
    \/ \E i \in TaskIds, ok \in BOOLEAN : consumer_reply(i, ok)
    \/ \E i \in TaskIds : _remove_queue_subscription_task(i)

\* The life cycle of the manager: start, the four wrappers, stop, from any
\* thread at any time.  The subscriptions have no message limit and the
\* broker delivers no message to a consumer.
Next ==
    \/ \E t \in Threads, e \in ExchangeNames : declare_exchange(t, e)
    \/ \E t \in Threads, q \in OneQueue, e \in ExchangeNames \cup {None},
          k \in RoutingKeys \cup {None} : add_queue_subscription(t, q, e, k, NoLimit)
    \/ \E t \in Threads, q \in OneQueue : remove_queue_subscription(t, q)
    \/ \E t \in Threads, e \in ExchangeNames \cup {None}, k \in RoutingKeys :
          send_message_to(t, e, k, "b1")
    \/ Work
    \/ \E t \in Threads : start(t)
    \/ run
    \/ \E ok \in BOOLEAN : _setup_broker_interface(ok)
    \/ \E t \in Threads : stop(t)
    \/ \E ok \in BOOLEAN : _stop_broker_interface(ok)

Spec == Init /\ [][Next]_vars

\* A manager that start() has returned from, in use: subscriptions with and
\* without a message limit, messages published through it, delivered by the
\* broker and handed to the callbacks; one thread makes the calls, one after
\* the other, and stop() is not called.
StartedInit ==
    /\ bgPc = "running"
    /\ setupPc = "done"
    /\ connection = "open"
    /\ channel = "open"
    /\ prefetch = 1
    /\ ready = TRUE
    /\ stopping = FALSE
    /\ stopped = FALSE
    /\ stopCo = "none"
    /\ loopStopRequested = FALSE
    /\ stopSeqStarted = 0
    /\ loopStops = 0
    /\ stopLog = "none"
    /\ pc = [t \in Threads |-> "idle"]
    /\ op = [t \in Threads |-> NoOp]
    /\ res = [t \in Threads |-> "none"]
    /\ co = [t \in Threads |-> "none"]
    /\ calls = 0
    /\ exchanges = {}
    /\ consumerByName = [q \in Queues |-> 0]
    /\ tasksByName = [q \in Queues |-> 0]
    /\ tasks = [i \in TaskIds |-> FreeTask]
    /\ brokerExchanges = {}
    /\ brokerQueues = {}
    /\ brokerBindings = {}
    /\ published = <<>>
    /\ queueMsgs = [q \in Queues |-> <<>>]
    /\ consumers = {}
    /\ acked = {}
    /\ callbackLog = <<>>
    /\ detached = {}
    /\ ttlArguments = NoTtlArguments
    /\ wireArguments = NotComputed
    /\ workflows = <<>>
    /\ ifPc = [t \in Threads |-> "idle"]
    /\ ifOp = [t \in Threads |-> NoIfOp]
    /\ ifRes = [t \in Threads |-> "none"]
    /\ ifLog = <<>>

\* The thread that uses the started manager.
Caller == "t1"

StartedNext ==
    \/ \E e \in ExchangeNames : declare_exchange(Caller, e)
    \/ \E q \in OneQueue, e \in ExchangeNames \cup {None},
          k \in RoutingKeys \cup {None}, n \in Limits :
             add_queue_subscription(Caller, q, e, k, n)
    \/ \E q \in OneQueue : remove_queue_subscription(Caller, q)
    \/ \E e \in ExchangeNames \cup {None}, k \in RoutingKeys \cup OneQueue,
          b \in Bodies : send_message_to(Caller, e, k, b)
    \/ Work
    \/ \E i \in TaskIds : consumer_step(i)
    \/ \E i \in TaskIds : deliver(i)
    \/ \E i \in TaskIds, ok \in BOOLEAN : callback_on_message(i, ok)
    \/ \E m \in 1..MaxCalls : detached_callback_ends(m)

StartedSpec == StartedInit /\ [][StartedNext]_vars

\* The executor thread that runs the callback of the first subscription, and
\* that subscription's task.
CallbackThread == "t2"
CallbackTask == 1

\* A started manager with a subscription on each queue, both consuming.
CallbackInit ==
    /\ bgPc = "running"
    /\ setupPc = "done"
    /\ connection = "open"
    /\ channel = "open"
    /\ prefetch = 1
    /\ ready = TRUE
    /\ stopping = FALSE
    /\ stopped = FALSE
    /\ stopCo = "none"
    /\ loopStopRequested = FALSE
    /\ stopSeqStarted = 0
    /\ loopStops = 0
    /\ stopLog = "none"
    /\ pc = [t \in Threads |-> "idle"]
    /\ op = [t \in Threads |-> NoOp]
    /\ res = [t \in Threads |-> "none"]
    /\ co = [t \in Threads |-> "none"]
    /\ calls = 0
    /\ exchanges = {}
    /\ consumerByName = [q \in Queues |-> IF q = "q1" THEN 1 ELSE IF q = "q2" THEN 2 ELSE 0]
    /\ tasksByName = [q \in Queues |-> IF q = "q1" THEN 1 ELSE IF q = "q2" THEN 2 ELSE 0]
    /\ tasks = [i \in TaskIds |->
                  IF i <= 2
                  THEN [FreeTask EXCEPT !.queue = IF i = 1 THEN "q1" ELSE "q2",
                                        !.status = "running", !.at = "iterate",
                                        !.qos = 1]
                  ELSE FreeTask]
    /\ brokerExchanges = {}
    /\ brokerQueues = TwoQueues
    /\ brokerBindings = {}
    /\ published = <<>>
    /\ queueMsgs = [q \in Queues |-> <<>>]
    /\ consumers = {1, 2}
    /\ acked = {}
    /\ callbackLog = <<>>
    /\ detached = {}
    /\ ttlArguments = NoTtlArguments
    /\ wireArguments = NotComputed
    /\ workflows = <<>>
    /\ ifPc = [t \in Threads |-> "idle"]
    /\ ifOp = [t \in Threads |-> NoIfOp]
    /\ ifRes = [t \in Threads |-> "none"]
    /\ ifLog = <<>>

\* A wrapper call made by the callback of the first subscription, as
\* callback_on_finished_wrapped does through auto_disconnect_on_result_handler.
InCallback == tasks[CallbackTask].cb = "running"

\* The callback of task i returns or raises; the one that makes wrapper
\* calls is inside the call until the call returns.
callback_ends(i, ok) ==
    /\ i = CallbackTask => pc[CallbackThread] = "idle"
    /\ callback_on_message(i, ok)

\* Two subscriptions in use: the caller declares, subscribes and publishes to
\* the queues by name; the callback of the first subscription removes
\* subscriptions and publishes, and any callback may run for ever.
CallbackNext ==
    \/ \E e \in ExchangeNames : declare_exchange(Caller, e)
    \/ \E q \in TwoQueues : add_queue_subscription(Caller, q, None, None, NoLimit)
    \/ \E q \in TwoQueues : send_message_to(Caller, None, q, "b1")
    \/ \E q \in TwoQueues : InCallback /\ remove_queue_subscription(CallbackThread, q)
    \/ \E q \in TwoQueues : InCallback /\ send_message_to(CallbackThread, None, q, "b1")
    \/ Work
    \/ \E i \in TaskIds : consumer_step(i)
    \/ \E i \in TaskIds : deliver(i)
    \/ \E i \in TaskIds, ok \in BOOLEAN : callback_ends(i, ok)
    \/ \E m \in 1..MaxCalls : detached_callback_ends(m)

CallbackSpec == CallbackInit /\ [][CallbackNext]_vars

\* disconnect_after_messages of zero and a negative one.
NonPositiveLimits == {0, -2}

\* The started manager in use with subscriptions whose message limit is zero
\* or negative.
NonPositiveLimitNext ==
    \/ \E e \in ExchangeNames : declare_exchange(Caller, e)
    \/ \E q \in OneQueue, e \in ExchangeNames \cup {None},
          k \in RoutingKeys \cup {None}, n \in NonPositiveLimits :
             add_queue_subscription(Caller, q, e, k, n)
    \/ \E q \in OneQueue : remove_queue_subscription(Caller, q)
    \/ \E e \in ExchangeNames \cup {None}, k \in RoutingKeys \cup OneQueue,
          b \in Bodies : send_message_to(Caller, e, k, b)
    \/ Work
    \/ \E i \in TaskIds : consumer_step(i)
    \/ \E i \in TaskIds : deliver(i)
    \/ \E i \in TaskIds, ok \in BOOLEAN : callback_on_message(i, ok)
    \/ \E m \in 1..MaxCalls : detached_callback_ends(m)

NonPositiveLimitSpec == StartedInit /\ [][NonPositiveLimitNext]_vars

\* A started manager that is shut down: the threads subscribe to the queue
\* and remove the subscription, also at the same time, and call stop().
ShutdownNext ==
    \/ \E t \in Threads, q \in OneQueue :
          add_queue_subscription(t, q, None, None, NoLimit)
    \/ \E t \in Threads, q \in OneQueue : remove_queue_subscription(t, q)
    \/ \E t \in Threads : future_result(t)
    \/ \E t \in Threads, ok \in BOOLEAN : _add_queue_subscription(t, ok)
    \/ \E t \in Threads, ok \in BOOLEAN : _remove_queue_subscription(t, ok)
    \/ \E i \in TaskIds : consumer_cancelled(i)
    \/ \E i \in TaskIds, ok \in BOOLEAN : consumer_reply(i, ok)
    \/ \E i \in TaskIds : _remove_queue_subscription_task(i)
    \/ run_forever_returns
    \/ \E t \in Threads : stop(t)
    \/ \E ok \in BOOLEAN : _stop_broker_interface(ok)

ShutdownSpec == StartedInit /\ [][ShutdownNext]_vars

\* ------------------------------------------------------ the OmotesInterface

\* The one job of the behaviours, and its three queues as
\* OmotesQueueNames names them: results, progress, status.
Job == "j1"
ResultsQueue == "q1"
ProgressQueue == "q2"
StatusQueue == "q3"
JobQueues == {ResultsQueue, ProgressQueue, StatusQueue}
\* OmotesQueueNames.omotes_exchange_name() and the routing key of a job
\* submission (job_submission_queue_name).
OmotesExchange == "e1"
SubmissionKey == "r"
\* Workflow type names a caller may pass, and the sets of names of the
\* available-workflows messages.
WorkflowNames == {"w1", "w2"}
AvailableWorkflows == {{"w1"}}
\* The serialized JobSubmission message, and the log entry without a result.
SubmissionBody == "b1"
NoResult == [job_result |-> None]

\* The keywords BrokerInterface.add_queue_subscription declares.
add_queue_subscription_keywords ==
    {"queue_name", "callback_on_message", "queue_type", "bind_to_routing_key",
     "exchange_name", "disconnect_after_messages"}
\* The keywords connect_to_submitted_job passes for the results queue.
results_subscription_keywords ==
    {"queue_name", "callback_on_message", "queue_type", "exchange_name",
     "delete_after_messages"}
\* A call binds its keywords to the parameters of the function: a keyword the
\* function does not declare is a TypeError of the call.
Binds(keywords, parameters) == keywords \subseteq parameters

\* JobResult().ParseFromString(message): the result message of a body.
ParseFromString(b) == [job_result |-> b]

\* A workflow_exists that knows every name.
workflow_exists_always(w) == TRUE

\* WorkflowTypeManager.workflow_exists of the manager received last.
workflow_exists(w) == w \in workflows[1]

\* What ifOp keeps of a method that ended: of submit_job its name and the
\* workflow type.
Ended(o) ==
    IF o.name = "submit_job"
    THEN [NoIfOp EXCEPT !.name = o.name, !.workflow = o.workflow]
    ELSE NoIfOp

\* The interface methods start with no wrapper call of the thread pending.
\* ifOp keeps the arguments while the method runs, and the method and its
\* workflow type afterwards.
EnterInterface(t, o) ==
    /\ ifPc[t] = "idle"
    /\ pc[t] = "idle"
    /\ ifOp' = [ifOp EXCEPT ![t] = o]
    /\ op' = [op EXCEPT ![t] = NoOp]
    /\ res' = [res EXCEPT ![t] = "none"]
    /\ UNCHANGED <<bgPc, setupPc, connection, channel, prefetch, ready, ttlVars>>
    /\ UNCHANGED <<stopVars, registryVars, brokerVars, pc, co, calls, workflows>>

\* callback_on_update_available_workflows: the manager built from the
\* received message replaces the previous one.
callback_on_update_available_workflows(S) ==
    /\ workflows' = <<S>>
    /\ UNCHANGED <<ifPc, ifOp, ifRes, ifLog>>
    /\ UNCHANGED <<bgPc, setupPc, connection, channel, prefetch, ready, ttlVars>>
    /\ UNCHANGED <<stopVars, registryVars, brokerVars, threadVars>>

\* submit_job(workflow_type=w, callback_on_progress_update given: p,
\* callback_on_status_update given: s, auto_disconnect_on_result=a): the
\* workflow test comes first and raises UnknownWorkflowException; otherwise
\* connect_to_submitted_job is next.
submit_job(t, w, p, s, a) ==
    /\ EnterInterface(t,
           IF workflows = <<>> \/ ~workflow_exists(w)
           THEN [NoIfOp EXCEPT !.name = "submit_job", !.workflow = w]
           ELSE [NoIfOp EXCEPT !.name = "submit_job", !.workflow = w,
                               !.progress = p, !.status = s, !.auto = a])
    /\ IF workflows = <<>> \/ ~workflow_exists(w)
       THEN /\ ifRes' = [ifRes EXCEPT ![t] = "UnknownWorkflowException"]
            /\ UNCHANGED ifPc
       ELSE /\ ifRes' = [ifRes EXCEPT ![t] = "none"]
            /\ ifPc' = [ifPc EXCEPT ![t] = "connect_to_submitted_job"]
    /\ UNCHANGED ifLog

\* connect_to_submitted_job called by the application.
connect_to_submitted_job(t, p, s, a) ==
    /\ EnterInterface(t, [NoIfOp EXCEPT !.name = "connect_to_submitted_job",
                                        !.progress = p, !.status = s, !.auto = a])
    /\ ifRes' = [ifRes EXCEPT ![t] = "none"]
    /\ ifPc' = [ifPc EXCEPT ![t] = "connect_to_submitted_job"]
    /\ UNCHANGED ifLog

\* The first statement of connect_to_submitted_job that reaches the manager:
\* broker_if.add_queue_subscription for the results queue, with the keywords
\* it passes.
add_results_subscription(t) ==
    /\ ifPc[t] = "connect_to_submitted_job"
    /\ IF Binds(results_subscription_keywords, add_queue_subscription_keywords)
       THEN /\ ifPc' = [ifPc EXCEPT ![t] = "add_results"]
            /\ UNCHANGED ifRes
       ELSE /\ ifPc' = [ifPc EXCEPT ![t] = "idle"]
            /\ ifRes' = [ifRes EXCEPT ![t] = "TypeError"]
    /\ ifOp' = [ifOp EXCEPT ![t] =
           IF ifPc'[t] = "idle" THEN Ended(@) ELSE @]
    /\ UNCHANGED <<workflows, ifLog>>
    /\ UNCHANGED <<bgPc, setupPc, connection, channel, prefetch, ready, ttlVars>>
    /\ UNCHANGED <<stopVars, registryVars, brokerVars, threadVars>>

\* disconnect_from_submitted_job(job): three removals follow.
disconnect_from_submitted_job(t) ==
    /\ EnterInterface(t, [NoIfOp EXCEPT !.name = "disconnect_from_submitted_job"])
    /\ ifRes' = [ifRes EXCEPT ![t] = "none"]
    /\ ifPc' = [ifPc EXCEPT ![t] = "remove_results"]
    /\ UNCHANGED ifLog

\* The positions of an interface method at which it calls the manager.
CallPositions ==
    {"add_results", "add_progress", "add_status", "send",
     "remove_results", "remove_progress", "remove_status"}

\* The position after a call of the manager that returned: the progress and
\* the status subscription only for the callbacks that are given, the
\* submission after connect_to_submitted_job, the removals in the order
\* results, progress, status.
AfterConnect(t) == IF ifOp[t].name = "submit_job" THEN "send" ELSE "idle"
NextPosition(t) ==
    CASE ifPc[t] = "add_results" ->
             IF ifOp[t].progress THEN "add_progress"
             ELSE IF ifOp[t].status THEN "add_status" ELSE AfterConnect(t)
      [] ifPc[t] = "add_progress" ->
             IF ifOp[t].status THEN "add_status" ELSE AfterConnect(t)
      [] ifPc[t] = "add_status" -> AfterConnect(t)
      [] ifPc[t] = "remove_results" -> "remove_progress"
      [] ifPc[t] = "remove_progress" -> "remove_status"
      [] OTHER -> "idle"

\* The call of the manager at the position of the method.
interface_call(t) ==
    /\ ifPc[t] \in CallPositions
    /\ op[t].name = "none"
    /\ \/ /\ ifPc[t] = "add_results"
          /\ add_queue_subscription(t, ResultsQueue, OmotesExchange, None, 1)
       \/ /\ ifPc[t] = "add_progress"
          /\ add_queue_subscription(t, ProgressQueue, OmotesExchange, None, NoLimit)
       \/ /\ ifPc[t] = "add_status"
          /\ add_queue_subscription(t, StatusQueue, OmotesExchange, None, NoLimit)
       \/ /\ ifPc[t] = "send"
          /\ send_message_to(t, OmotesExchange, SubmissionKey, SubmissionBody)
       \/ /\ ifPc[t] = "remove_results"
          /\ remove_queue_subscription(t, ResultsQueue)
       \/ /\ ifPc[t] = "remove_progress"
          /\ remove_queue_subscription(t, ProgressQueue)
       \/ /\ ifPc[t] = "remove_status"
          /\ remove_queue_subscription(t, StatusQueue)

\* The call of the manager returned to the method: an exception ends the
\* method with it, otherwise the method goes on.
interface_return(t) ==
    /\ ifPc[t] \in CallPositions
    /\ op[t].name # "none"
    /\ pc[t] = "idle"
    /\ res[t] # "none"
    /\ IF res[t] = "ok"
       THEN /\ ifPc' = [ifPc EXCEPT ![t] = NextPosition(t)]
            /\ ifRes' = [ifRes EXCEPT ![t] =
                   IF NextPosition(t) = "idle" THEN "ok" ELSE @]
       ELSE /\ ifPc' = [ifPc EXCEPT ![t] = "idle"]
            /\ ifRes' = [ifRes EXCEPT ![t] = res[t]]
    /\ op' = [op EXCEPT ![t] = NoOp]
    /\ res' = [res EXCEPT ![t] = "none"]
    /\ ifOp' = [ifOp EXCEPT ![t] =
           IF ifPc'[t] = "idle" THEN Ended(@) ELSE @]
    /\ UNCHANGED <<workflows, ifLog>>
    /\ UNCHANGED <<bgPc, setupPc, connection, channel, prefetch, ready, ttlVars>>
    /\ UNCHANGED <<stopVars, registryVars, brokerVars, pc, co, calls>>

\* JobSubmissionCallbackHandler.callback_on_finished_wrapped(message) of a
\* handler with (a) or without the auto disconnect handler: the message is
\* parsed and callback_on_finished is called with the job and the result.
callback_on_finished_wrapped(t, b, a) ==
    /\ EnterInterface(t, [NoIfOp EXCEPT !.name = "callback_on_finished_wrapped",
                                        !.auto = a, !.body = b])
    /\ ifRes' = [ifRes EXCEPT ![t] = "none"]
    /\ ifPc' = [ifPc EXCEPT ![t] = "callback_on_finished"]
    /\ ifLog' = <<[ev |-> "callback_on_finished", job |-> Job,
                   result |-> ParseFromString(b)]>>

\* A wrapped callback that calls the auto disconnect handler whether
\* callback_on_finished returned or raised.
callback_on_finished_then_always_disconnects(t, ok) ==
    /\ ifPc[t] = "callback_on_finished"
    /\ IF ifOp[t].auto
       THEN /\ ifPc' = [ifPc EXCEPT ![t] = "remove_progress"]
            /\ ifLog' = Append(ifLog, [ev |-> "auto_disconnect", job |-> Job,
                                       result |-> NoResult])
            /\ ifRes' = [ifRes EXCEPT ![t] = IF ok THEN @ ELSE "CallbackError"]
       ELSE /\ ifPc' = [ifPc EXCEPT ![t] = "idle"]
            /\ ifRes' = [ifRes EXCEPT ![t] = IF ok THEN "ok" ELSE "CallbackError"]
            /\ UNCHANGED ifLog
    /\ ifOp' = [ifOp EXCEPT ![t] =
           IF ifPc'[t] = "idle" THEN Ended(@) ELSE @]
    /\ UNCHANGED workflows
    /\ UNCHANGED <<bgPc, setupPc, connection, channel, prefetch, ready, ttlVars>>
    /\ UNCHANGED <<stopVars, registryVars, brokerVars, threadVars>>

\* callback_on_finished returns (ok) or raises: its exception leaves the
\* wrapped callback at once; after a return the auto disconnect handler, if
\* there is one, is called with the job, and removes the progress and then
\* the status subscription.
callback_on_finished(t, ok) ==
    /\ ifPc[t] = "callback_on_finished"
    /\ IF ~ok
       THEN /\ ifPc' = [ifPc EXCEPT ![t] = "idle"]
            /\ ifRes' = [ifRes EXCEPT ![t] = "CallbackError"]
            /\ UNCHANGED ifLog
       ELSE IF ifOp[t].auto
            THEN /\ ifPc' = [ifPc EXCEPT ![t] = "remove_progress"]
                 /\ ifLog' = Append(ifLog, [ev |-> "auto_disconnect", job |-> Job,
                                            result |-> NoResult])
                 /\ UNCHANGED ifRes
            ELSE /\ ifPc' = [ifPc EXCEPT ![t] = "idle"]
                 /\ ifRes' = [ifRes EXCEPT ![t] = "ok"]
                 /\ UNCHANGED ifLog
    /\ ifOp' = [ifOp EXCEPT ![t] =
           IF ifPc'[t] = "idle" THEN Ended(@) ELSE @]
    /\ UNCHANGED workflows
    /\ UNCHANGED <<bgPc, setupPc, connection, channel, prefetch, ready, ttlVars>>
    /\ UNCHANGED <<stopVars, registryVars, brokerVars, threadVars>>

\* The application subscribes to a queue of the job with the manager of the
\* interface (its attribute broker_if).
broker_if_add_queue_subscription(t, q) ==
    /\ ifPc[t] = "idle"
    /\ add_queue_subscription(t, q, OmotesExchange, None, NoLimit)

\* An interface that was started: the manager runs, the omotes exchange is
\* declared, no workflow message has arrived yet; the queues of a job that
\* was submitted before this process started may be on the broker.
InterfaceInit ==
    /\ bgPc = "running"
    /\ setupPc = "done"
    /\ connection = "open"
    /\ channel = "open"
    /\ prefetch = 1
    /\ ready = TRUE
    /\ stopping = FALSE
    /\ stopped = FALSE
    /\ stopCo = "none"
    /\ loopStopRequested = FALSE
    /\ stopSeqStarted = 0
    /\ loopStops = 0
    /\ stopLog = "none"
    /\ pc = [t \in Threads |-> "idle"]
    /\ op = [t \in Threads |-> NoOp]
    /\ res = [t \in Threads |-> "none"]
    /\ co = [t \in Threads |-> "none"]
    /\ calls = 0
    /\ exchanges = {OmotesExchange}
    /\ consumerByName = [q \in Queues |-> 0]
    /\ tasksByName = [q \in Queues |-> 0]
    /\ tasks = [i \in TaskIds |-> FreeTask]
    /\ brokerExchanges = {OmotesExchange}
    /\ brokerQueues \in {{}, JobQueues}
    /\ brokerBindings = {<<q, OmotesExchange, q>> : q \in brokerQueues}
    /\ published = <<>>
    /\ queueMsgs = [q \in Queues |-> <<>>]
    /\ consumers = {}
    /\ acked = {}
    /\ callbackLog = <<>>
    /\ detached = {}
    /\ ttlArguments = NoTtlArguments
    /\ wireArguments = NotComputed
    /\ workflows = <<>>
    /\ ifPc = [t \in Threads |-> "idle"]
    /\ ifOp = [t \in Threads |-> NoIfOp]
    /\ ifRes = [t \in Threads |-> "none"]
    /\ ifLog = <<>>

\* The application thread uses the interface, a thread of the executor runs
\* the job callback, the loop runs the coroutines and the consumer tasks.
InterfaceNext ==
    \/ \E S \in AvailableWorkflows : callback_on_update_available_workflows(S)
    \/ \E w \in WorkflowNames, p \in BOOLEAN, s \in BOOLEAN, a \in BOOLEAN :
          submit_job(Caller, w, p, s, a)
    \/ \E p \in BOOLEAN, s \in BOOLEAN, a \in BOOLEAN :
          connect_to_submitted_job(Caller, p, s, a)
    \/ add_results_subscription(Caller)
    \/ disconnect_from_submitted_job(Caller)
    \/ \E q \in {ProgressQueue, StatusQueue} :
          broker_if_add_queue_subscription(Caller, q)
    \/ \E b \in Bodies, a \in BOOLEAN :
          callback_on_finished_wrapped(CallbackThread, b, a)
    \/ \E ok \in BOOLEAN : callback_on_finished(CallbackThread, ok)
    \/ \E t \in Threads : interface_call(t)
    \/ \E t \in Threads : interface_return(t)
    \/ \E t \in Threads : future_result(t)
    \/ \E t \in Threads, ok \in BOOLEAN : _add_queue_subscription(t, ok)
    \/ \E t \in Threads, ok \in BOOLEAN : _remove_queue_subscription(t, ok)
    \/ \E i \in TaskIds : consumer_cancelled(i)
    \/ \E i \in TaskIds, ok \in BOOLEAN : consumer_reply(i, ok)
    \/ \E i \in TaskIds : _remove_queue_subscription_task(i)

InterfaceSpec == InterfaceInit /\ [][InterfaceNext]_vars

\* ------------------------------------------------- the TTL argument set

\* A queue TTL of zero accepted.
queue_ttl_valid_allows_zero(a) ==
    a.queue_ttl = <<>> \/ a.queue_ttl[1] >= 0

\* queue_ttl, if present, is a strictly positive duration.
queue_ttl_valid(a) ==
    a.queue_ttl = <<>> \/ a.queue_ttl[1] > 0

\* A message TTL that is not compared with the queue TTL.
message_ttl_valid_ignores_queue_ttl(a) ==
    a.message_ttl = <<>> \/ a.message_ttl[1] > 0

\* message_ttl, if present, is strictly positive and does not exceed the
\* queue TTL when both are set.
message_ttl_valid(a) ==
    \/ a.message_ttl = <<>>
    \/ /\ a.message_ttl[1] > 0
       /\ a.queue_ttl = <<>> \/ a.message_ttl[1] <= a.queue_ttl[1]

\* A duration in seconds as whole milliseconds.
Milliseconds(d) == d * 1000

\* The wire arguments of a TTL argument set: x-expires for queue_ttl and
\* x-message-ttl for message_ttl, each in milliseconds, for the options that
\* are set.
WireArguments(a) ==
    {<<"x-expires", Milliseconds(a.queue_ttl[i])>> : i \in 1..Len(a.queue_ttl)}
    \cup {<<"x-message-ttl", Milliseconds(a.message_ttl[i])>> :
             i \in 1..Len(a.message_ttl)}

\* QueueMessageTTLArguments(queue_ttl=q, message_ttl=m): a violated
\* constraint is a ValueError of the construction, not of a later use.
QueueMessageTTLArguments(q, m) ==
    /\ ttlArguments' = [queue_ttl |-> q, message_ttl |-> m]
    /\ wireArguments' =
          IF queue_ttl_valid(ttlArguments') /\ message_ttl_valid(ttlArguments')
          THEN NotComputed
          ELSE [status |-> "ValueError", args |-> {}]
    /\ UNCHANGED <<bgPc, setupPc, connection, channel, prefetch, ready, ifaceVars>>
    /\ UNCHANGED <<stopVars, threadVars, registryVars, brokerVars>>

\* to_argument() on an argument set that was constructed.
to_argument ==
    /\ wireArguments = NotComputed
    /\ wireArguments' = [status |-> "ok", args |-> WireArguments(ttlArguments)]
    /\ UNCHANGED ttlArguments
    /\ UNCHANGED <<bgPc, setupPc, connection, channel, prefetch, ready, ifaceVars>>
    /\ UNCHANGED <<stopVars, threadVars, registryVars, brokerVars>>

\* TTL argument sets are constructed and turned into wire arguments.
TtlNext ==
    \/ \E q \in OptionalTtl, m \in OptionalTtl : QueueMessageTTLArguments(q, m)
    \/ to_argument

TtlSpec == Init /\ [][TtlNext]_vars

\* ---------------------------------------------------------------- fairness

\* What a caller thread does by itself once it is inside a call.
ThreadStep(t) ==
    \/ start_wait(t)
    \/ stop_return(t)
    \/ stop_schedule(t)
    \/ stop_wait(t)
    \/ stop_loop(t)
    \/ future_result(t)

\* The loop runs a queued coroutine up to its first await.
FirstStep(t) ==
    /\ co[t] \in Scheduled
    /\ \/ _declare_exchange(t, TRUE)
       \/ _send_message_to(t, TRUE)
       \/ _add_queue_subscription(t, TRUE)
       \/ _remove_queue_subscription(t, TRUE)

\* The broker answers the operation a coroutine awaits.
BrokerReply(t) ==
    /\ co[t] \notin Scheduled
    /\ \E ok \in BOOLEAN :
          \/ _declare_exchange(t, ok)
          \/ _send_message_to(t, ok)
          \/ _add_queue_subscription(t, ok)
          \/ _remove_queue_subscription(t, ok)

\* The loop runs the ready step of a consumer task: a cancellation, a step of
\* its own, or its done-callback.
TaskStep(i) ==
    \/ consumer_cancelled(i)
    \/ consumer_step(i)
    \/ _remove_queue_subscription_task(i)

\* Scheduling: the operating system runs every thread, and a running loop
\* runs every callback and coroutine step that is ready.
SchedulingFairness ==
    /\ WF_vars(run)
    /\ WF_vars(stopCo = "scheduled" /\ _stop_broker_interface(TRUE))
    /\ \A t \in Threads : WF_vars(ThreadStep(t)) /\ WF_vars(FirstStep(t))
    /\ \A i \in TaskIds : WF_vars(TaskStep(i))

\* The broker answers every operation it is asked, with success or an error.
BrokerFairness ==
    /\ WF_vars(\E ok \in BOOLEAN : _setup_broker_interface(ok))
    /\ WF_vars(stopCo # "scheduled" /\ \E ok \in BOOLEAN : _stop_broker_interface(ok))
    /\ \A t \in Threads : WF_vars(BrokerReply(t))
    /\ \A i \in TaskIds :
          /\ WF_vars(\E ok \in BOOLEAN : consumer_reply(i, ok))
          /\ WF_vars(deliver(i))

\* Fair scheduling; the broker may leave an operation unanswered.
FairSpec == Spec /\ SchedulingFairness

\* Fair scheduling and a broker that answers.
FairBrokerSpec == Spec /\ SchedulingFairness /\ BrokerFairness

\* The started manager in use, with fair scheduling and a broker that answers
\* and delivers; a callback may run forever.
FairStartedSpec == StartedSpec /\ SchedulingFairness /\ BrokerFairness

\* The two subscriptions in use, with fair scheduling and a broker that
\* answers and delivers; a callback may run for ever.
FairCallbackSpec == CallbackSpec /\ SchedulingFairness /\ BrokerFairness

\* ------------------------------------------------------------------ claims

WrapperNames ==
    {"declare_exchange", "add_queue_subscription", "remove_queue_subscription",
     "send_message_to"}
StopPcs == {"stop_return", "stop_schedule", "stop_wait", "stop_loop"}
Returned(t, name) == pc[t] = "idle" /\ op[t].name = name /\ res[t] = "ok"
RunningTasks(q) == {i \in TaskIds : tasks[i].queue = q /\ tasks[i].status = "running"}

\* C1: at any time at most one consumer task is running per queue name, also
\* when add_queue_subscription is called from different threads for one name.
C1_AtMostOneActiveSubscription ==
    \A q \in Queues : Cardinality(RunningTasks(q)) <= 1

\* C2: when _add_queue_subscription starts for a queue name that is in the
\* registry, it fails at once: it raises RuntimeError without awaiting any
\* broker operation, and the registries, the tasks and the broker are as before.
C2_DuplicateAddFailsImmediately ==
    [][\A t \in Threads :
        ( /\ pc[t] = "wait"
          /\ op[t].name = "add_queue_subscription"
          /\ co[t] \in Scheduled
          /\ consumerByName[op[t].queue] # 0
          /\ co'[t] # co[t] )
        => /\ co'[t] = "RuntimeError"
           /\ UNCHANGED <<registryVars, brokerVars>>]_vars

\* C2 witness: a duplicate add, with no exchange and no routing key, has
\* failed while the first subscription's task is registered and running.
C2_Witness ==
    \E t \in Threads :
        /\ op[t].name = "add_queue_subscription"
        /\ op[t].exchange = None /\ op[t].key = None
        /\ co[t] = "RuntimeError"
        /\ consumerByName[op[t].queue] # 0
        /\ tasks[consumerByName[op[t].queue]].status = "running"

\* C3: the shutdown sequence runs at most once whatever the number of stop()
\* calls, and exactly once as soon as the stop() that performs it has returned:
\* _stop_broker_interface is scheduled once and loop.stop is scheduled once.
C3_ShutdownSequenceOnce ==
    /\ stopSeqStarted <= 1
    /\ loopStops <= stopSeqStarted
    /\ stopped => (stopSeqStarted = 1 /\ loopStops = 1)

\* C3 witness: two stop() calls have returned and the sequence has run.
C3_Witness ==
    /\ \A t \in Threads : Returned(t, "stop")
    /\ stopSeqStarted = 1
    /\ loopStops = 1

\* C4: on a started manager a stop() call returns only once the shutdown
\* logic, or its timeout fallback, has completed (the loop has been told to
\* stop).
C4_StopReturnsAfterShutdown ==
    \A t \in Threads : (ready /\ Returned(t, "stop")) => stopped

\* C5: every stop() call terminates, and once the loop has been told to stop,
\* also after a timeout of the shutdown sequence, the background thread leaves
\* run_forever and closes the loop.
C5_StopTerminates ==
    /\ \A t \in Threads : (pc[t] \in StopPcs) ~> (pc[t] = "idle")
    /\ (stopLog = "timeout" \/ stopped) ~> (bgPc = "closed")

\* C5 witness: the shutdown sequence timed out and never finished, stop()
\* returned and the loop is closed.
C5_Witness ==
    /\ stopLog = "timeout"
    /\ stopCo \notin StopCoDone
    /\ \E t \in Threads : Returned(t, "stop")
    /\ bgPc = "closed"

\* C6: when the shutdown sequence that stop() scheduled raised or timed out,
\* no stop() call ends with an exception, and the loop is told to stop as soon
\* as the performing stop() is past its last statement.
C6_StopNeverRaises ==
    (stopSeqStarted > 0 /\ (stopCo = "done_err" \/ stopLog = "timeout")) =>
        /\ \A t \in Threads : (pc[t] = "idle" /\ op[t].name = "stop") => res[t] = "ok"
        /\ (\A t \in Threads : pc[t] \notin {"stop_wait", "stop_loop"})
               => loopStopRequested

\* C6 witness: the shutdown sequence raised, stop() returned normally and the
\* loop was stopped.
C6_Witness ==
    /\ stopLog = "error"
    /\ stopCo = "done_err"
    /\ stopped
    /\ \E t \in Threads : Returned(t, "stop")
    /\ bgPc \in {"stopped", "closed"}

\* C7: when connection setup fails during start(), the caller of start() gets
\* out of start() (with an exception or a result) instead of blocking forever.
C7_StartDoesNotHang ==
    \A t \in Threads :
        (pc[t] = "start_wait" /\ setupPc = "failed") ~> (pc[t] = "idle")

\* C8: the readiness signal is set only after connect, channel creation and
\* set_qos(prefetch_count=1) succeeded, and start() returns only when it is set.
C8_ReadyAfterSetup ==
    /\ ready => /\ setupPc = "done"
                /\ connection # "none"
                /\ channel # "none"
                /\ prefetch = 1
    /\ \A t \in Threads : (pc[t] = "idle" /\ op[t].name = "start") => ready

\* C8 witness: start() has returned on an open channel with prefetch 1.
C8_Witness ==
    \E t \in Threads :
        /\ Returned(t, "start")
        /\ connection = "open" /\ channel = "open" /\ prefetch = 1

\* C9: every call of a synchronous wrapper eventually returns or raises, also
\* a call that is in flight, or issued, while another thread runs stop(); the
\* calls looked at are those waiting while no stop() has returned yet.
C9_WrapperCallsTerminate ==
    \A t \in Threads : (pc[t] = "wait" /\ ~stopped) ~> (pc[t] = "idle")

\* C10: a synchronous wrapper leaves its wait only when its coroutine has
\* finished, returns normally only when the coroutine succeeded, and otherwise
\* raises the coroutine's exception.
C10_WrapperPropagatesFailure ==
    [][\A t \in Threads :
        (pc[t] = "wait" /\ pc'[t] = "idle")
        => /\ co[t] \in CoDone
           /\ res'[t] = "ok" <=> co[t] = "done_ok"
           /\ co[t] # "done_ok" => res'[t] = co[t]]_vars

\* C10 witness: a wrapper call has raised the broker error of its coroutine.
C10_Witness ==
    \E t \in Threads :
        /\ pc[t] = "idle"
        /\ op[t].name \in WrapperNames
        /\ res[t] = "BrokerError"

\* C11: a declare_exchange, add_queue_subscription or send_message_to called
\* while start() has not returned yet is executed only after the setup
\* (connection, channel, set_qos) has completed: the broker has no exchange,
\* queue or message of this manager before that.
C11_OperationsAfterSetup ==
    (brokerExchanges # {} \/ brokerQueues # {} \/ published # <<>>) => setupPc = "done"

SendsTo(t) == pc[t] = "wait" /\ op[t].name = "send_message_to"

\* C19: when _send_message_to starts with an exchange name that is not in
\* _exchanges, it raises RuntimeError, nothing is published, no queue gets a
\* message, and the exchange registry is as before.
C19_UndeclaredExchangeRaises ==
    [][\A t \in Threads :
        ( /\ SendsTo(t)
          /\ co[t] \in Scheduled
          /\ co'[t] # co[t]
          /\ op[t].exchange # None
          /\ op[t].exchange \notin exchanges )
        => /\ co'[t] = "RuntimeError"
           /\ UNCHANGED <<published, queueMsgs, exchanges, brokerExchanges>>]_vars

\* C19 witness: a send_message_to on an undeclared exchange has raised
\* RuntimeError to its caller and nothing was published.
C19_Witness ==
    \E t \in Threads :
        /\ pc[t] = "idle"
        /\ op[t].name = "send_message_to"
        /\ op[t].exchange \notin exchanges \cup {None}
        /\ res[t] = "RuntimeError"
        /\ published = <<>>

\* C20: a _send_message_to with no exchange name or with a declared exchange
\* goes on to publish; when it succeeds exactly one message was published, on
\* that exchange, with the given routing key and a body equal to the given
\* bytes; and nothing else publishes.
C20_PublishesExactlyTheMessage ==
    [][ /\ \A t \in Threads :
            /\ ( /\ SendsTo(t)
                 /\ co[t] \in Scheduled
                 /\ co'[t] # co[t]
                 /\ channel = "open"
                 /\ op[t].exchange \in exchanges \cup {None} )
               => (co'[t] = "publish" /\ published' = published)
            /\ (SendsTo(t) /\ co[t] \notin CoDone /\ co'[t] = "done_ok")
               => published' = Append(published,
                      [exchange |-> op[t].exchange, key |-> op[t].key,
                       body |-> op[t].body, delivery_mode |-> "PERSISTENT"])
        /\ published' # published
           => \E t \in Threads : SendsTo(t) /\ co[t] = "publish" /\ co'[t] = "done_ok"
      ]_vars

\* C20 witness: with no exchange declared, a send_message_to on the default
\* exchange has returned and its message is the one published.
C20_Witness ==
    \E t \in Threads :
        /\ Returned(t, "send_message_to")
        /\ op[t].exchange = None
        /\ exchanges = {}
        /\ Len(published) = 1
        /\ published[1].exchange = None
        /\ published[1].key = op[t].key
        /\ published[1].body = op[t].body

\* The callback of task i has finished and the task goes on from its await.
Resumes(i) ==
    /\ tasks[i].at = "callback"
    /\ tasks[i].status = "running"
    /\ tasks'[i].at # "callback"

\* C12: when the callback raised on a message, the message is rejected with
\* requeue (it is back at the head of its queue and not acknowledged), the
\* messages acknowledged before stay acknowledged, and the task leaves the
\* iterator: it hands no later message to the callback.
C12_CallbackErrorRequeues ==
    [][\A i \in TaskIds :
        /\ (Resumes(i) /\ tasks[i].cb = "raised")
           => /\ i \in consumers =>
                    queueMsgs'[tasks[i].queue] = <<tasks[i].cur>> \o queueMsgs[tasks[i].queue]
              /\ acked' = acked
              /\ tasks[i].cur \notin acked
              /\ tasks'[i].at = "close"
        /\ tasks[i].at = "close"
           => /\ tasks'[i].at \in {"close", "none"}
              /\ callbackLog' = callbackLog
              /\ acked \subseteq acked'
      ]_vars

\* C12 witness: the callback returned on message 1 and raised on message 2;
\* message 1 is acknowledged, message 2 is back on the queue, and the task is
\* leaving.
C12_Witness ==
    \E i \in TaskIds :
        /\ tasks[i].at = "close"
        /\ tasks[i].count = 1
        /\ acked = {1}
        /\ Len(callbackLog) = 2
        /\ callbackLog[2].msg = 2
        /\ Len(published) = 2
        /\ queueMsgs[tasks[i].queue] = <<2>>

\* C13: when a consumer task is done, by any path, its done-callback runs and
\* leaves both registries without an entry for the queue name, and an
\* add_queue_subscription that finds no entry for its queue name is not
\* rejected as a duplicate.
C13_DoneTaskIsUnregistered ==
    /\ \A i \in TaskIds : (tasks[i].status \in Done) ~> (tasks[i].status = "free")
    /\ [][\A i \in TaskIds :
            (tasks[i].status \in Done /\ tasks'[i].status = "free")
            => /\ consumerByName'[tasks[i].queue] = 0
               /\ tasksByName'[tasks[i].queue] = 0]_vars
    /\ [][\A t \in Threads :
            ( /\ pc[t] = "wait"
              /\ op[t].name = "add_queue_subscription"
              /\ co[t] \in Scheduled
              /\ co'[t] # co[t]
              /\ consumerByName[op[t].queue] = 0
              /\ ~(op[t].key # None /\ op[t].exchange = None) )
            => co'[t] = "declare_queue"]_vars

\* C13 witness: a subscription with limit 1 has processed its message and was
\* unregistered, and a second add_queue_subscription for the queue name has
\* returned with a new task registered.
C13_Witness ==
    \E t \in Threads :
        /\ Returned(t, "add_queue_subscription")
        /\ calls = 3
        /\ acked = {1}
        /\ Len(callbackLog) = 1
        /\ consumerByName[op[t].queue] # 0
        /\ tasks[consumerByName[op[t].queue]].count = 0

\* C14: when a remove_queue_subscription(q) returns, neither registry has an
\* entry for q.
C14_RemoveReturnsUnregistered ==
    [][\A t \in Threads :
        ( /\ pc[t] = "wait"
          /\ op[t].name = "remove_queue_subscription"
          /\ pc'[t] = "idle"
          /\ res'[t] = "ok" )
        => /\ consumerByName'[op[t].queue] = 0
           /\ tasksByName'[op[t].queue] = 0]_vars

\* The callback of task i is handed a message in this step.
CallbackStarts(i) ==
    /\ Len(callbackLog') = Len(callbackLog) + 1
    /\ callbackLog'[Len(callbackLog')].task = i

\* C15: a subscription with disconnect_after_messages = N (N >= 1) hands a
\* message to the callback only while it has processed fewer than N, goes on
\* iterating after a processed message only below N, leaves the iterator when
\* the N-th message is processed, and is then removed from the registry.
C15_DisconnectAfterLimit ==
    /\ [][\A i \in TaskIds :
            /\ (CallbackStarts(i) /\ tasks[i].limit # NoLimit)
               => tasks[i].count < tasks[i].limit
            /\ (Resumes(i) /\ tasks[i].cb = "returned" /\ tasks[i].limit # NoLimit)
               => /\ tasks'[i].count = tasks[i].count + 1
                  /\ tasks'[i].count < tasks[i].limit =>
                        tasks'[i].at = (IF channel = "open" THEN "iterate" ELSE "close")
                  /\ tasks'[i].count = tasks[i].limit => tasks'[i].at = "close"
                  /\ tasks'[i].count <= tasks[i].limit]_vars
    /\ \A i \in TaskIds :
          (tasks[i].limit # NoLimit /\ tasks[i].count = tasks[i].limit)
          ~> (tasks[i].status = "free" /\ \A q \in Queues : tasksByName[q] # i)

\* C15 witness: a subscription with limit 2 has processed two messages, both
\* are acknowledged, and it has left the iterator.
C15_Witness ==
    \E i \in TaskIds :
        /\ tasks[i].limit = 2
        /\ tasks[i].count = 2
        /\ tasks[i].at = "close"
        /\ acked = {1, 2}
        /\ Len(callbackLog) = 2

\* C16: a consumer task hands a message to the callback only when it has no
\* callback running and no message inside message.process, and the message
\* is the oldest one delivered to it and not yet taken; a message is
\* acknowledged only by the task whose callback returned on it, in the step
\* in which the task goes on; and one step settles one message at most.
C16_OneMessageAtATimeInOrder ==
    [][ /\ \A i \in TaskIds :
            CallbackStarts(i)
            => /\ tasks[i].cb = "none"
               /\ tasks[i].cur = 0
               /\ tasks[i].buf # <<>>
               /\ callbackLog'[Len(callbackLog')].msg = Head(tasks[i].buf)
               /\ tasks'[i].cur = Head(tasks[i].buf)
               /\ acked' = acked
        /\ acked' # acked
           => \E i \in TaskIds :
                 /\ Resumes(i)
                 /\ tasks[i].cb = "returned"
                 /\ tasks[i].cur # 0
                 /\ acked' = acked \cup {tasks[i].cur}
      ]_vars

\* C16 witness: one task was handed message 1 and then message 2, and both
\* are acknowledged.
C16_Witness ==
    /\ Len(callbackLog) = 2
    /\ callbackLog[1].msg = 1
    /\ callbackLog[2].msg = 2
    /\ callbackLog[1].task = callbackLog[2].task
    /\ tasks[callbackLog[1].task].count = 2
    /\ acked = {1, 2}

\* The messages task i has processed, or is processing, since it was created:
\* the last ones of the messages handed to its callback.
RunEntries(i) ==
    LET mine == SelectSeq(callbackLog, LAMBDA e : e.task = i)
        n == tasks[i].count + (IF tasks[i].at = "callback" THEN 1 ELSE 0)
    IN  IF tasks[i].status = "free" \/ Len(mine) < n THEN <<>>
        ELSE SubSeq(mine, Len(mine) - n + 1, Len(mine))

\* C18: end to end.  An add_queue_subscription with an exchange that returns
\* has bound the queue to the exchange with its routing key and registered the
\* consumer; a publish on that exchange with that key puts the message on the
\* queue; a subscription whose queue holds a message gets to hand a message
\* to its callback unless it is cancelled or its consume fails; the callback
\* is handed the body that was published, for a message not acknowledged
\* before, and one subscription is handed a message once only.
C18_EndToEnd ==
    /\ [][\A t \in Threads :
            /\ ( /\ pc[t] = "wait"
                 /\ op[t].name = "add_queue_subscription"
                 /\ op[t].exchange # None
                 /\ co[t] \notin CoDone
                 /\ co'[t] = "done_ok" )
               => /\ op[t].key # None =>
                        <<op[t].queue, op[t].exchange, op[t].key>> \in brokerBindings'
                  /\ op[t].queue \in brokerQueues'
                  /\ consumerByName'[op[t].queue] # 0
                  /\ tasks'[consumerByName'[op[t].queue]].status = "running"
            /\ (SendsTo(t) /\ co[t] = "publish" /\ co'[t] = "done_ok")
               => \A q \in brokerQueues :
                     <<q, op[t].exchange, op[t].key>> \in brokerBindings
                     => queueMsgs'[q] = Append(queueMsgs[q], Len(published'))]_vars
    /\ [][\A i \in TaskIds :
            CallbackStarts(i)
            => LET e == callbackLog'[Len(callbackLog')]
               IN  /\ e.msg \in 1..Len(published)
                   /\ e.body = published[e.msg].body
                   /\ e.queue = tasks[i].queue
                   /\ e.msg \notin acked
                   /\ \A j \in 1..Len(RunEntries(i)) : RunEntries(i)[j].msg # e.msg]_vars
    /\ \A i \in TaskIds :
          ( /\ tasks[i].status = "running"
            /\ tasks[i].at \in {"consume", "iterate"}
            /\ queueMsgs[tasks[i].queue] # <<>> )
          ~> ( \/ tasks[i].at = "callback"
               \/ tasks[i].status # "running"
               \/ tasks[i].at = "close" )

\* C18 witness: exchange e1 was declared, queue q1 subscribed with key r on
\* e1, one message published on e1 with key r; the callback was handed that
\* body, once, and the message is acknowledged.
C18_Witness ==
    /\ exchanges = {"e1"}
    /\ brokerBindings = {<<"q1", "e1", "r">>}
    /\ Len(published) = 1
    /\ published[1].exchange = "e1"
    /\ published[1].key = "r"
    /\ published[1].body = "b2"
    /\ Len(callbackLog) = 1
    /\ callbackLog[1].msg = 1
    /\ callbackLog[1].queue = "q1"
    /\ callbackLog[1].body = "b2"
    /\ acked = {1}
    /\ queueMsgs["q1"] = <<>>
    /\ consumerByName["q1"] # 0

\* The callback of some subscription on another queue than task j's is
\* running in its executor thread.
OtherCallbackRuns(j) ==
    \E i \in TaskIds \ {j} :
        /\ tasks[i].at = "callback"
        /\ tasks[i].cb = "running"
        /\ tasks[i].queue # tasks[j].queue

\* C17: while the callback of one subscription runs, for however long, a
\* wrapper call that waits for its coroutine, made by another thread or by
\* the callback itself, returns; a subscription on another queue whose queue
\* holds a message hands a message to its callback (unless it is cancelled);
\* and a subscription on another queue whose callback returned goes on.
C17_CallbackDoesNotBlockLoop ==
    /\ \A t \in Threads :
          (pc[t] = "wait" /\ \E i \in TaskIds : tasks[i].cb = "running")
          ~> (pc[t] = "idle")
    /\ \A j \in TaskIds :
          ( /\ OtherCallbackRuns(j)
            /\ tasks[j].status = "running"
            /\ tasks[j].at = "iterate"
            /\ queueMsgs[tasks[j].queue] # <<>> )
          ~> ( \/ tasks[j].at = "callback"
               \/ tasks[j].status # "running"
               \/ tasks[j].at = "close" )
    /\ \A j \in TaskIds :
          (OtherCallbackRuns(j) /\ tasks[j].cb = "returned")
          ~> (tasks[j].cb = "none")

\* C17 witness: the callback of the first subscription is still running on
\* its message; it has published a message to the other queue and the call
\* has returned; the other subscription was handed that message after the
\* first callback had started, and has acknowledged it.
C17_Witness ==
    /\ tasks[CallbackTask].at = "callback"
    /\ tasks[CallbackTask].cb = "running"
    /\ tasks[CallbackTask].cur \notin acked
    /\ Returned(CallbackThread, "send_message_to")
    /\ \E a, b \in 1..Len(callbackLog) :
          /\ a < b
          /\ callbackLog[a].task = CallbackTask
          /\ callbackLog[a].msg = tasks[CallbackTask].cur
          /\ callbackLog[b].queue # callbackLog[a].queue
          /\ callbackLog[b].msg \in acked
          /\ published[callbackLog[b].msg].key = op[CallbackThread].key

\* C21: every message published through the manager, on the default exchange
\* or on a declared one, has the persistent delivery mode.
C21_PublishedPersistent ==
    \A m \in 1..Len(published) : published[m].delivery_mode = "PERSISTENT"

\* C21 witness: one message was published on the default exchange and one
\* on a declared exchange, both persistent.
C21_Witness ==
    /\ \E m \in 1..Len(published) :
          published[m].exchange = None /\ published[m].delivery_mode = "PERSISTENT"
    /\ \E m \in 1..Len(published) :
          /\ published[m].exchange \in exchanges
          /\ published[m].delivery_mode = "PERSISTENT"

\* The add_queue_subscription coroutine of thread t takes a step.
AddSteps(t) ==
    /\ pc[t] = "wait"
    /\ op[t].name = "add_queue_subscription"
    /\ co'[t] # co[t]
    /\ co[t] \notin CoDone

\* C22: an add_queue_subscription that names an exchange which is not in
\* _exchanges raises RuntimeError in its first step, and the broker's queues
\* and bindings and the two registries are as they were.
C22_UndeclaredExchangeFailsFast ==
    [][\A t \in Threads :
        (AddSteps(t) /\ op[t].exchange \notin exchanges \cup {None})
        => /\ co[t] \in Scheduled
           /\ co'[t] = "RuntimeError"
           /\ UNCHANGED <<brokerQueues, brokerBindings, consumerByName, tasksByName>>
      ]_vars

\* C23: an add_queue_subscription with a routing key and no exchange name
\* raises RuntimeError in its first step, before declare_queue: the broker's
\* queues and bindings and the registries are as they were, and the caller
\* of the wrapper gets the RuntimeError.
C23_KeyWithoutExchangeRaises ==
    [][\A t \in Threads :
        /\ (AddSteps(t) /\ op[t].key # None /\ op[t].exchange = None)
           => /\ co[t] \in Scheduled
              /\ co'[t] = "RuntimeError"
              /\ UNCHANGED <<brokerQueues, brokerBindings, consumerByName,
                             tasksByName, tasks>>
        /\ ( /\ pc[t] = "wait"
             /\ pc'[t] = "idle"
             /\ op[t].name = "add_queue_subscription"
             /\ op[t].key # None
             /\ op[t].exchange = None )
           => res'[t] = "RuntimeError"
      ]_vars

\* C23 witness: the first call made, an add_queue_subscription with a
\* routing key and no exchange, has raised RuntimeError; the broker has no
\* queue and the registry no entry.
C23_Witness ==
    \E t \in Threads :
        /\ pc[t] = "idle"
        /\ op[t].name = "add_queue_subscription"
        /\ op[t].key # None
        /\ op[t].exchange = None
        /\ res[t] = "RuntimeError"
        /\ calls = 1
        /\ brokerQueues = {}
        /\ \A q \in Queues : consumerByName[q] = 0 /\ tasksByName[q] = 0

\* C24 as claimed: an add_queue_subscription with an exchange name and
\* without a routing key performs no bind.
C24_NoBindWithoutKey ==
    [][\A t \in Threads :
        (AddSteps(t) /\ op[t].exchange # None /\ op[t].key = None)
        => brokerBindings' = brokerBindings]_vars

\* C24, amended: a queue is bound only by an add_queue_subscription with an
\* exchange name, to that exchange; with the requested routing key when one
\* is given and with the queue's name when none is; and an
\* add_queue_subscription without an exchange name performs no bind.
C24_BindOnlyWithExchange ==
    [][ /\ \A t \in Threads :
            /\ (AddSteps(t) /\ co[t] = "bind" /\ co'[t] = "done_ok")
               => /\ op[t].exchange # None
                  /\ brokerBindings' = brokerBindings \cup
                        {<<op[t].queue, op[t].exchange,
                           IF op[t].key = None THEN op[t].queue ELSE op[t].key>>}
            /\ (AddSteps(t) /\ op[t].exchange = None)
               => brokerBindings' = brokerBindings
        /\ ~(brokerBindings' \subseteq brokerBindings)
           => \E t \in Threads : AddSteps(t) /\ co[t] = "bind" /\ co'[t] = "done_ok"
      ]_vars

\* C24 witness: an add_queue_subscription with exchange e1 and no routing
\* key has returned, and the queue is bound to e1 with its own name.
C24_Witness ==
    \E t \in Threads :
        /\ Returned(t, "add_queue_subscription")
        /\ op[t].exchange = "e1"
        /\ op[t].key = None
        /\ <<op[t].queue, "e1", op[t].queue>> \in brokerBindings

\* C25: no step removes a name from _exchanges; a name is added only by a
\* _declare_exchange whose broker declaration has just succeeded, and it is
\* the name that was declared; a name that is declared again is in the
\* registry as before; a declaration that fails adds nothing.
C25_ExchangeRegistryOnlyGrows ==
    [][ /\ exchanges \subseteq exchanges'
        /\ exchanges' # exchanges
           => \E t \in Threads :
                 /\ pc[t] = "wait"
                 /\ op[t].name = "declare_exchange"
                 /\ co[t] = "declare_exchange"
                 /\ co'[t] = "done_ok"
                 /\ op[t].exchange \in brokerExchanges'
                 /\ exchanges' = exchanges \cup {op[t].exchange}
        /\ \A t \in Threads :
              ( /\ pc[t] = "wait"
                /\ op[t].name = "declare_exchange"
                /\ co'[t] # co[t]
                /\ co[t] \notin CoDone )
              => /\ co'[t] # "done_ok" => exchanges' = exchanges
                 /\ co'[t] = "done_ok" => exchanges' = exchanges \cup {op[t].exchange}
      ]_vars

\* C25 witness: after start(), the exchange was declared by two calls, both
\* have returned,
\* and the registry holds the one name.
C25_Witness ==
    /\ exchanges = {"e1"}
    /\ brokerExchanges = {"e1"}
    /\ \A t \in Threads : Returned(t, "declare_exchange")
    /\ calls = 3

\* C26: when _stop_broker_interface has cancelled the subscriptions, with
\* every add_queue_subscription and remove_queue_subscription call made
\* before it finished, every consumer task that was created and is not done
\* has its cancellation requested.
C26_StopCancelsEveryConsumer ==
    [][ ( /\ stopCo = "scheduled"
          /\ stopCo' # stopCo
          /\ \A t \in Threads : pc[t] # "wait" )
        => \A i \in TaskIds : tasks'[i].status # "running"
      ]_vars

\* The remove_queue_subscription coroutine of thread t takes a step.
RemoveSteps(t) ==
    /\ pc[t] = "wait"
    /\ op[t].name = "remove_queue_subscription"
    /\ co'[t] # co[t]
    /\ co[t] \notin CoDone

Cancelled(i) ==
    \/ tasks[i].status \in Cancelling \cup Done
    \/ tasks[i].status = "running" /\ tasks[i].at = "close"

\* C28: a consumer task whose cancellation was requested leaves the iterator
\* at its next step and hands no message to the callback from then on; a
\* callback that runs when the cancellation reaches the task goes on in its
\* thread, and it ends by itself only.
C28_CancelledTaskStartsNoCallback ==
    [][ /\ \A i \in TaskIds :
            /\ Cancelled(i) => ~CallbackStarts(i)
            /\ (Cancelled(i) /\ tasks'[i].status # "free") => Cancelled(i)'
            /\ ( /\ tasks[i].status \in Cancelling
                 /\ tasks'[i].status \notin Cancelling
                 /\ tasks[i].at = "callback"
                 /\ tasks[i].cb = "running" )
               => tasks[i].cur \in detached'
        /\ ~(detached \subseteq detached')
           => /\ \A i \in TaskIds : tasks'[i] = tasks[i]
              /\ UNCHANGED <<queueMsgs, acked, callbackLog, consumers>>
      ]_vars

\* C28 witness: remove_queue_subscription has returned; the callback that
\* was running on message 1 when the task was cancelled is still running; the
\* message was handed to a callback that one time only.
C28_Witness ==
    /\ \E t \in Threads : Returned(t, "remove_queue_subscription")
    /\ detached = {1}
    /\ Len(callbackLog) = 1
    /\ callbackLog[1].msg = 1
    /\ acked = {}

\* The construction of the argument set failed.
ConstructionFails == wireArguments.status = "ValueError"

\* C29: constructing a TTL argument set fails for every queue TTL that is
\* zero or negative; for every queue TTL greater than zero (with no message
\* TTL, or one that is valid) it succeeds, and its wire arguments have
\* x-expires with the duration in milliseconds, alone when no message TTL is
\* set.
C29_QueueTtl ==
    ttlArguments.queue_ttl # <<>>
    => LET q == ttlArguments.queue_ttl[1]
           m == ttlArguments.message_ttl
       IN  /\ q <= 0 => ConstructionFails
           /\ (q > 0 /\ (m = <<>> \/ (m[1] > 0 /\ m[1] <= q)))
              => ~ConstructionFails
           /\ (q > 0 /\ wireArguments.status = "ok")
              => /\ <<"x-expires", q * 1000>> \in wireArguments.args
                 /\ \A p \in wireArguments.args :
                       p[1] = "x-expires" => p[2] = q * 1000
                 /\ m = <<>> => wireArguments.args = {<<"x-expires", q * 1000>>}

\* C29 witness: a queue TTL of 60 seconds gave x-expires 60000.
C29_Witness ==
    /\ ttlArguments = [queue_ttl |-> <<60>>, message_ttl |-> <<>>]
    /\ wireArguments = [status |-> "ok", args |-> {<<"x-expires", 60000>>}]

\* C30: with both TTLs set, constructing the argument set fails when the
\* message TTL is greater than the queue TTL and succeeds, with both wire
\* arguments in milliseconds, when it is positive and at most the queue TTL;
\* a message TTL that is zero or negative fails whatever the queue TTL is,
\* set or not.
C30_MessageTtl ==
    ttlArguments.message_ttl # <<>>
    => LET m == ttlArguments.message_ttl[1]
           qs == ttlArguments.queue_ttl
       IN  /\ m <= 0 => ConstructionFails
           /\ (qs # <<>> /\ m > qs[1]) => ConstructionFails
           /\ (qs # <<>> /\ m > 0 /\ m <= qs[1])
              => /\ ~ConstructionFails
                 /\ wireArguments.status = "ok"
                    => wireArguments.args =
                         {<<"x-expires", qs[1] * 1000>>,
                          <<"x-message-ttl", m * 1000>>}

\* C30 witness: a queue TTL of two minutes with a message TTL of one minute
\* gave both wire arguments.
C30_Witness ==
    /\ ttlArguments = [queue_ttl |-> <<120>>, message_ttl |-> <<60>>]
    /\ wireArguments =
          [status |-> "ok",
           args |-> {<<"x-expires", 120000>>, <<"x-message-ttl", 60000>>}]

\* C34: the shutdown sequence requests the cancellation of every consumer
\* task that is running before it closes the channel, closes the channel
\* before the connection, and closes each of them only if it was created.
C34_ShutdownOrder ==
    [][ /\ (stopCo = "scheduled" /\ stopCo' # stopCo)
           => /\ \A i \in TaskIds :
                    tasks[i].status = "running" => tasks'[i].status \in Cancelling
              /\ channel' = channel
              /\ connection' = connection
        /\ (channel # "closed" /\ channel' = "closed")
           => /\ channel = "open"
              /\ \/ stopCo = "close_channel" /\ connection' = connection
                 \/ stopCo = "close_connection" /\ connection' = "closed"
        /\ (connection # "closed" /\ connection' = "closed")
           => /\ stopCo = "close_connection"
              /\ connection = "open"
        /\ (stopCo # "close_channel" /\ stopCo' = "close_channel")
           => stopCo = "scheduled" /\ channel # "none"
        /\ (stopCo # "close_connection" /\ stopCo' = "close_connection")
           => /\ connection # "none"
              /\ \/ stopCo = "close_channel" /\ channel' = "closed"
                 \/ stopCo = "scheduled" /\ channel = "none"
      ]_vars

\* C35: the done-callback of a finished consumer task leaves the registry
\* entries of a queue name alone when they belong to a different task that
\* is still running.
C35_DoneCallbackRemovesOwnEntry ==
    [][ \A i \in TaskIds :
          (tasks[i].status \in Done /\ tasks'[i].status = "free")
          => \A q \in Queues :
                ( /\ tasksByName[q] # 0
                  /\ tasksByName[q] # i
                  /\ tasks[tasksByName[q]].status = "running" )
                => /\ tasksByName'[q] = tasksByName[q]
                   /\ consumerByName'[q] = consumerByName[q]
      ]_vars

\* C36: in every state between two steps of the loop the consumer registry
\* and the task registry have an entry for exactly the same queue names.
C36_RegistriesHaveSameNames ==
    \A q \in Queues : (consumerByName[q] # 0) <=> (tasksByName[q] # 0)

\* C36 witness: two tasks were registered for one name, the first was
\* overwritten, and the done-callback of one of them has deleted the entries
\* while the other task runs.
C36_Witness ==
    /\ consumerByName["q1"] = 0
    /\ tasksByName["q1"] = 0
    /\ \E i \in TaskIds : tasks[i].status = "running" /\ tasks[i].queue = "q1"
    /\ \A t \in Threads : op[t].name = "add_queue_subscription"

\* C37: an add_queue_subscription that fails, whatever the reason, leaves the
\* two registries and the consumer tasks as they were: no step of the
\* coroutine writes them unless it is the one that ends it with success, and
\* a coroutine that is past its checks, or that the broker has failed, has no
\* entry and no task for its queue name.
C37_FailedAddLeavesRegistry ==
    /\ [][ \A t \in Threads :
             (AddSteps(t) /\ co'[t] # "done_ok")
             => UNCHANGED <<consumerByName, tasksByName, tasks>> ]_vars
    /\ [](\A t \in Threads :
             ( /\ pc[t] = "wait"
               /\ op[t].name = "add_queue_subscription"
               /\ co[t] \in {"declare_queue", "bind", "BrokerError"} )
             => /\ consumerByName[op[t].queue] = 0
                /\ tasksByName[op[t].queue] = 0
                /\ \A i \in TaskIds : tasks[i].queue # op[t].queue)

\* C37 witness: an add_queue_subscription with an exchange has failed on its
\* bind, after the queue was declared, and nothing is registered.
C37_Witness ==
    /\ pc[Caller] = "idle"
    /\ op[Caller].name = "add_queue_subscription"
    /\ op[Caller].exchange # None
    /\ res[Caller] = "BrokerError"
    /\ op[Caller].queue \in brokerQueues
    /\ exchanges # {}
    /\ consumerByName[op[Caller].queue] = 0
    /\ tasksByName[op[Caller].queue] = 0
    /\ \A i \in TaskIds : tasks[i].status = "free"

\* C38: a stop() on a manager that was never started returns normally, and
\* a stop() that returns on a manager that start() has made ready, with no
\* other stop() under way, has the shutdown sequence performed: the
\* sequence was scheduled and the loop was told to stop.
C38_StopBeforeStart ==
    [][ \A t \in Threads :
          (pc[t] \in StopPcs /\ pc'[t] = "idle")
          => /\ bgPc = "unstarted" => res'[t] = "ok"
             /\ ( /\ ready
                  /\ res'[t] = "ok"
                  /\ \A u \in Threads \ {t} : pc[u] \notin StopPcs )
                => (stopSeqStarted' >= 1 /\ loopStops' >= 1)
      ]_vars

\* C39: a subscription whose disconnect_after_messages is zero or negative
\* hands no message to its callback.
C39_NonPositiveLimitNoCallback ==
    [][ \A i \in TaskIds :
          CallbackStarts(i) => (tasks[i].limit = NoLimit \/ tasks[i].limit > 0)
      ]_vars

\* A step in which thread t calls submit_job.
SubmitStep(t) ==
    /\ ifPc[t] = "idle"
    /\ ifOp'[t].name = "submit_job"
    /\ ifOp'[t] # ifOp[t] \/ ifRes'[t] # ifRes[t] \/ ifPc'[t] # ifPc[t]

\* C33: submit_job raises UnknownWorkflowException when no workflow message
\* has been received or the name of the workflow type is not among the
\* received ones, and only then; the call that raises it makes no call of the
\* manager, so that no subscription is added and no message is published by
\* it, and it is over with the exception.
C33_UnknownWorkflowRaisesFirst ==
    [][\A t \in Threads :
          SubmitStep(t) =>
             LET unknown == workflows = <<>> \/ ifOp'[t].workflow \notin workflows[1]
             IN  /\ unknown <=> ifRes'[t] = "UnknownWorkflowException"
                 /\ unknown =>
                       /\ ifPc'[t] = "idle"
                       /\ UNCHANGED <<pc, co, calls, published>>
                       /\ UNCHANGED <<consumerByName, tasksByName, tasks>>
                       /\ UNCHANGED <<brokerQueues, brokerBindings>>]_vars

\* submit_job raised for a name that the received workflow message does not
\* have, with no call of the manager made and nothing published.
C33_Witness ==
    /\ ifOp[Caller].name = "submit_job"
    /\ ifOp[Caller].workflow = "w2"
    /\ ifRes[Caller] = "UnknownWorkflowException"
    /\ workflows = <<{"w1"}>>
    /\ calls = 0
    /\ published = <<>>


\* A step in which the submit_job of thread t ends, after it passed the
\* workflow test.
SubmitEnds(t) ==
    /\ ifOp[t].name = "submit_job"
    /\ ifPc[t] # "idle"
    /\ ifPc'[t] = "idle"

\* C40: a submit_job that passed the workflow test has the manager subscribe
\* to the results queue, then to the progress and the status queue whose
\* callbacks are given, and publishes the submission only after each of these
\* calls returned without an exception: it ends either with the return of
\* the publication, or with the exception that one of these calls of the
\* manager raised and with nothing published.
C40_SubscribedBeforePublished ==
    [][\A t \in Threads :
          /\ SubmitEnds(t) =>
                /\ ifPc[t] \in {"add_results", "add_progress", "add_status", "send"}
                /\ ifRes'[t] = "ok" =>
                      /\ ifPc[t] = "send"
                      /\ \E i \in 1..Len(published) :
                            published[i].body = SubmissionBody
          /\ ( /\ ifOp[t].name = "submit_job"
               /\ op'[t].name = "send_message_to"
               /\ op[t].name # "send_message_to" )
             => ifPc[t] = "send"]_vars


\* C31: when disconnect_from_submitted_job(job) returns, none of the job's
\* queues (results, progress, status) is on the broker, in whatever state it
\* was called.
C31_DisconnectDeletesJobQueues ==
    [][\A t \in Threads :
          ( /\ ifOp[t].name = "disconnect_from_submitted_job"
            /\ ifPc[t] = "remove_status"
            /\ ifPc'[t] = "idle"
            /\ ifRes'[t] = "ok" )
          => brokerQueues' \cap JobQueues = {}]_vars


\* Thread t runs callback_on_finished_wrapped for a result message.
InWrapped(t) == ifOp[t].name = "callback_on_finished_wrapped"
\* The log entries of the two calls the wrapped callback makes.
FinishedCall(b) ==
    [ev |-> "callback_on_finished", job |-> Job, result |-> ParseFromString(b)]
HandlerCall == [ev |-> "auto_disconnect", job |-> Job, result |-> NoResult]

====
